---- MODULE Spec2Model ----
(***************************************************************************)
(* Model of the audit lifecycle of Postgres_Audit_App:                     *)
(*   AuditManager (src/src/database/audit_manager.py),                     *)
(*   AuditFunctions (src/src/database/queries/audit_functions.py),         *)
(*   DatabaseConnection (src/src/database/connection.py).                  *)
(*                                                                         *)
(* Identifiers and messages are sequences of tokens (strings).  A table    *)
(* reference such as public.users is <<"public", ".", "users">>, so that   *)
(* str.split('.') and the f-string concatenations of the code are computed *)
(* on the model's values.  The PostgreSQL catalog is the record db.        *)
(* Every object lives in the schema "public", which is both DB_SCHEMA's    *)
(* default (config.py:39) and the schema unqualified DDL creates into.     *)
(***************************************************************************)
EXTENDS Integers, Sequences, FiniteSets, Bags, TLC

\* ------------------------------------------------------------------------
\* Bounds of the model
\* ------------------------------------------------------------------------
\* the clock of the database stops here: at most MaxClock row-level events
MaxClock == 1
\* the stored key is replaced or deleted at most MaxKeyChanges times
MaxKeyChanges == 1
\* connections fail at most MaxFaults times
MaxFaults == 1
\* get_audit_data is called with limit in 1..MaxLimit
MaxLimit == 2
\* create_bulk_audit is called with at most MaxBulk table names
MaxBulk == 2
\* _encrypt_name on its own is given base64 texts of 1..MaxB64Len characters
MaxB64Len == 3
\* the main window has at most MaxPending threads alive and callbacks
\* waiting in its event queue, taken together
MaxPending == 2

\* ------------------------------------------------------------------------
\* Names
\* ------------------------------------------------------------------------
NoKey == "nokey"
\* two well-formed keys and one whose byte length AES rejects
Keys == {"k1", "k2", "kbad"}
DbSchema == <<"public">>

\* the table references callers pass: qualified, unqualified, and missing
TableRefs == { <<"public", ".", "users">>, <<"users">>, <<"public", ".", "ghost">> }

\* columns of the one source table, in ordinal order
UsersColumns == << <<"id">>, <<"email">> >>

UsersTypes == <<"integer", "character varying">>

UpperChars == {"P", "Q", "U", "G", "I", "E", "X", "Y", "Z"}
LowerChars == {"p", "q", "u", "g", "i", "e", "x", "y", "z", "a"}
DigitChars == {"7"}

\* str.lower() and PostgreSQL's folding of unquoted identifiers
LowerTok(c) ==
    CASE c = "P" -> "p" [] c = "Q" -> "q" [] c = "U" -> "u" [] c = "G" -> "g"
      [] c = "I" -> "i" [] c = "E" -> "e" [] c = "X" -> "x" [] c = "Y" -> "y"
      [] c = "Z" -> "z" [] OTHER -> c

LowerName(n) == [i \in 1..Len(n) |-> LowerTok(n[i])]

\* '.' in name
HasDot(n) == \E i \in 1..Len(n) : n[i] = "."

DotCount(n) == Cardinality({i \in 1..Len(n) : n[i] = "."})

FirstDot(n) == CHOOSE i \in 1..Len(n) : n[i] = "." /\ \A j \in 1..(i-1) : n[j] # "."

\* name.split('.') when it yields exactly two parts: <<schema, table>>
SplitDot(n) == << SubSeq(n, 1, FirstDot(n) - 1), SubSeq(n, FirstDot(n) + 1, Len(n)) >>

\* prefix test, the LIKE 'prefix%' of check_triggers_exist
StartsWith(n, p) == Len(n) >= Len(p) /\ SubSeq(n, 1, Len(p)) = p

\* token t occurs in message m
Contains(m, t) == \E i \in 1..Len(m) : m[i] = t

\* ------------------------------------------------------------------------
\* AuditFunctions._encrypt_name
\* ------------------------------------------------------------------------
\* AES accepts key.encode('utf-8')[:32] only when it has 16, 24 or 32 bytes
KeyValid(key) == key \in {"k1", "k2"}

\* base64(AES-CBC_key(pad(name))): an injective stand-in, one base64
\* character per token of the name, led by a character fixed by the key
KeyChar(key) == IF key = "k1" THEN "Q" ELSE "7"

TokChar(t) ==
    CASE t = "public" -> "P" [] t = "." -> "+" [] t = "users" -> "U"
      [] t = "ghost" -> "G" [] t = "id" -> "I" [] t = "email" -> "E"
      [] t = "usuario_accion" -> "X" [] t = "fecha_accion" -> "Y"
      [] t = "accion_sql" -> "Z" [] OTHER -> "/"

B64Cipher(name, key) ==
    <<KeyChar(key)>> \o [i \in 1..Len(name) |-> TokChar(name[i])] \o <<"=">>

IsAlpha(c) == c \in UpperChars \cup LowerChars
IsAlnum(c) == IsAlpha(c) \/ c \in DigitChars

\* the replacement of invalid characters as it would be if it kept them all
SanitizeKeepingAll(b64) == b64

\* ''.join(c if c.isalnum() else '_' for c in b64)
Sanitize(b64) == [i \in 1..Len(b64) |-> IF IsAlnum(b64[i]) THEN b64[i] ELSE "_"]

\* the tail of _encrypt_name: from the base64 text to the identifier
SafeIdentifier(b64) ==
    LET Prefixed(safe) == IF ~IsAlpha(safe[1]) THEN <<"a", "_">> \o safe ELSE safe
    IN  Prefixed(Sanitize(b64))

EncryptName(name, key) == SafeIdentifier(B64Cipher(name, key))

\* characters of the base64 alphabet: a capital, a small letter, a digit, and
\* the three that are not alphanumeric
B64Sample == {"Q", "a", "7", "+", "/", "="}

\* ------------------------------------------------------------------------
\* The database: catalog, secret table, clock
\* ------------------------------------------------------------------------
\* db.clave     the key stored in clave_secreta, or NoKey when it has no row
\* db.tables    [name -> [cols, types, rows]] of schema public
\* db.functions [name -> [target, nvals, vals, body]]: the trigger functions,
\*              each with the table its body inserts into, the VALUES list
\*              and its length, and what it does per operation
\* db.triggers  set of [name, table, timing, event, level, fn]
\* db.now       the clock NOW() reads

\* what a trigger function does for one operation: the row image its INSERT
\* reads and the value it returns
NoBody ==
    [insert |-> [image |-> "", ret |-> ""], update |-> [image |-> "", ret |-> ""],
     delete |-> [image |-> "", ret |-> ""]]

\* a SQL statement handed to execute_query
Stmt(sql, obj, on, cols, event, timing, fn) ==
    [sql |-> sql, obj |-> obj, on |-> on, cols |-> cols,
     event |-> event, timing |-> timing, fn |-> fn, level |-> "", body |-> NoBody,
     limit |-> 0]

\* a column definition "name TYPE" and its two parts
ColDef(name, type) == name \o <<" ", type>>

ColName(def) == SubSeq(def, 1, Len(def) - 2)

ColType(def) == def[Len(def)]

Query(sql, obj) == Stmt(sql, obj, <<>>, <<>>, "", "", <<>>)

IsDDL(s) == s.sql \in {"DROP TABLE", "CREATE TABLE", "DROP FUNCTION",
                       "DROP FUNCTION CASCADE", "CREATE FUNCTION",
                       "DROP TRIGGER", "CREATE TRIGGER"}

\* the relation a (possibly qualified) reference names, folded to lower case
RelName(ref) == LowerName(IF HasDot(ref) THEN SplitDot(ref)[2] ELSE ref)

RelSchema(ref) == IF HasDot(ref) THEN LowerName(SplitDot(ref)[1]) ELSE DbSchema

RelExists(d, ref) == RelSchema(ref) = DbSchema /\ RelName(ref) \in DOMAIN d.tables

Without(f, x) == [n \in (DOMAIN f) \ {x} |-> f[n]]

With(f, x, v) == [n \in (DOMAIN f) \cup {x} |-> IF n = x THEN v ELSE f[n]]

Distinct(seq) == \A i, j \in 1..Len(seq) : seq[i] = seq[j] => i = j

Ok(d) == [err |-> "", db |-> d]

Fail(d, text) == [err |-> text, db |-> d]

\* what PostgreSQL does with one DDL statement; "" is success
ExecDDL(d, s) ==
    CASE s.sql = "DROP TABLE" ->
           LET n == LowerName(s.obj)
           IN  Ok([d EXCEPT !.tables = Without(@, n),
                            !.triggers = {g \in @ : g.table # n}])
      [] s.sql = "CREATE TABLE" ->
           LET n == LowerName(s.obj)
               cs == [i \in 1..Len(s.cols) |-> LowerName(ColName(s.cols[i]))]
               ts == [i \in 1..Len(s.cols) |-> ColType(s.cols[i])]
           IN  IF n \in DOMAIN d.tables THEN Fail(d, "relation already exists")
               ELSE IF ~Distinct(cs) THEN Fail(d, "column specified more than once")
               ELSE Ok([d EXCEPT !.tables =
                           With(@, n, [cols |-> cs, types |-> ts, rows |-> <<>>])])
      [] s.sql \in {"DROP FUNCTION", "DROP FUNCTION CASCADE"} ->
           LET n == LowerName(s.obj)
               deps == {g \in d.triggers : g.fn = n}
           IN  IF n \notin DOMAIN d.functions THEN Ok(d)
               ELSE IF deps # {} /\ s.sql = "DROP FUNCTION"
                    THEN Fail(d, "other objects depend on it")
               ELSE Ok([d EXCEPT !.functions = Without(@, n),
                                 !.triggers = @ \ deps])
      [] s.sql = "CREATE FUNCTION" ->
           Ok([d EXCEPT !.functions =
                  With(@, LowerName(s.obj),
                       [target |-> LowerName(s.on), nvals |-> Len(s.cols),
                        vals |-> s.cols, body |-> s.body])])
      [] s.sql = "DROP TRIGGER" ->
           IF HasDot(s.obj) THEN Fail(d, "syntax error at or near .")
           ELSE IF ~RelExists(d, s.on) THEN Ok(d)
           ELSE Ok([d EXCEPT !.triggers =
                       {g \in @ : ~(g.name = LowerName(s.obj) /\ g.table = RelName(s.on))}])
      [] s.sql = "CREATE TRIGGER" ->
           IF HasDot(s.obj) THEN Fail(d, "syntax error at or near .")
           ELSE IF ~RelExists(d, s.on) THEN Fail(d, "relation does not exist")
           ELSE IF LowerName(s.fn) \notin DOMAIN d.functions
                THEN Fail(d, "function does not exist")
           ELSE IF \E g \in d.triggers :
                       g.name = LowerName(s.obj) /\ g.table = RelName(s.on)
                THEN Fail(d, "trigger already exists")
           ELSE Ok([d EXCEPT !.triggers = @ \cup
                       {[name |-> LowerName(s.obj), table |-> RelName(s.on),
                         timing |-> s.timing, event |-> s.event,
                         level |-> s.level, fn |-> LowerName(s.fn)]}])
      [] s.sql = "SELECT ROWS" ->
           LET n == LowerName(s.obj)
           IN  IF n \notin DOMAIN d.tables THEN Fail(d, "relation does not exist")
               ELSE IF \E i \in 1..Len(s.cols) :
                          \A c \in 1..Len(d.tables[n].cols) :
                              d.tables[n].cols[c] # LowerName(s.cols[i])
                    THEN Fail(d, "column does not exist")
               ELSE Ok(d)
      [] OTHER -> Ok(d)

\* ORDER BY ts DESC
RECURSIVE OrderDesc(_)
OrderDesc(rows) ==
    IF rows = <<>> THEN <<>>
    ELSE LET i == CHOOSE i \in 1..Len(rows) : \A j \in 1..Len(rows) : rows[j].ts <= rows[i].ts
         IN  <<rows[i]>> \o OrderDesc(SubSeq(rows, 1, i - 1) \o SubSeq(rows, i + 1, Len(rows)))

\* LIMIT n
Limit(rows, n) == SubSeq(rows, 1, IF Len(rows) < n THEN Len(rows) ELSE n)

\* ------------------------------------------------------------------------
\* Exceptions
\* ------------------------------------------------------------------------
\* type and msg are what the caller sees (msg = str(e), a token sequence).
\* root and raised are bookkeeping for the properties: root is the text of
\* the underlying failure, raised the text of the first exception that
\* propagated (they differ where a probe swallows its error).
NoExc == [type |-> "", msg |-> <<>>, root |-> "", raised |-> ""]

NewExc(type, text) == [type |-> type, msg |-> <<text>>, root |-> text, raised |-> text]

\* raise Type(f"{prefix}{str(e)}")
Wrap(type, prefix, e) == [e EXCEPT !.type = type, !.msg = <<prefix>> \o @]

ConnectionLost == "connection lost"

\* one entry of the statement log: the statement and whether it succeeded
Entry(s, ok) == [stmt |-> s, ok |-> ok]

\* ------------------------------------------------------------------------
\* DatabaseConnection
\* ------------------------------------------------------------------------
\* execute_query as it would be without conn.commit(): closing the connection
\* discards the statement's work
ExecuteQueryNoCommit(d, s, fetch, fault) ==
    LET Outcome(r) ==
            LET text == IF fault THEN ConnectionLost
                        ELSE IF r.err # "" THEN r.err
                        ELSE IF fetch /\ IsDDL(s) THEN "no results to fetch"
                        ELSE ""
            IN  IF text # ""
                THEN [exc |-> Wrap("DatabaseConnectionError", "Error ejecutando query: ",
                                Wrap("DatabaseConnectionError", "Error de base de datos: ",
                                     NewExc("psycopg2.Error", text))),
                      db |-> d, log |-> <<Entry(s, FALSE)>>]
                ELSE [exc |-> NoExc, db |-> d, log |-> <<Entry(s, TRUE)>>]
    IN  Outcome(ExecDDL(d, s))

\* execute_query: the statement runs in a connection of its own; a psycopg2
\* error is wrapped by get_connection and again by execute_query, and the
\* connection is rolled back and closed; without fetch the work is committed.
\* fault: the connection fails (the environment's choice).
ExecuteQuery(d, s, fetch, fault) ==
    LET Outcome(r) ==
            LET text == IF fault THEN ConnectionLost
                        ELSE IF r.err # "" THEN r.err
                        ELSE IF fetch /\ IsDDL(s) THEN "no results to fetch"
                        ELSE ""
            IN  IF text # ""
                THEN [exc |-> Wrap("DatabaseConnectionError", "Error ejecutando query: ",
                                Wrap("DatabaseConnectionError", "Error de base de datos: ",
                                     NewExc("psycopg2.Error", text))),
                      db |-> d, log |-> <<Entry(s, FALSE)>>]
                ELSE [exc |-> NoExc, db |-> r.db, log |-> <<Entry(s, TRUE)>>]
    IN  Outcome(ExecDDL(d, s))

\* the statements stmts[i..] one after the other, each through execute_query
\* with fetch_results=False, until one raises; fault is the index of the
\* statement whose connection fails (0: none)
RECURSIVE RunFrom(_, _, _, _)
RunFrom(d, stmts, i, fault) ==
    LET Join(r, rest) == [exc |-> rest.exc, db |-> rest.db, log |-> r.log \o rest.log]
        Then(r) == IF r.exc # NoExc THEN r
                   ELSE Join(r, RunFrom(r.db, stmts, i + 1, fault))
    IN  IF i > Len(stmts) THEN [exc |-> NoExc, db |-> d, log |-> <<>>]
        ELSE Then(ExecuteQuery(d, stmts[i], FALSE, fault = i))

\* table_exists as it would be if its except clause returned True
TableExistsTrueOnError(d, table_name, fault) ==
    LET s == Query("SELECT EXISTS", table_name)
        split_ok == ~HasDot(table_name) \/ DotCount(table_name) = 1
        schema == IF HasDot(table_name) THEN SplitDot(table_name)[1] ELSE DbSchema
        table == IF HasDot(table_name) THEN SplitDot(table_name)[2] ELSE table_name
    IN  IF ~split_ok THEN [ret |-> TRUE, log |-> <<>>, swallowed |-> "ValueError"]
        ELSE IF fault THEN [ret |-> TRUE, log |-> <<Entry(s, FALSE)>>,
                            swallowed |-> ConnectionLost]
        ELSE [ret |-> schema = DbSchema /\ table \in DOMAIN d.tables,
              log |-> <<Entry(s, TRUE)>>, swallowed |-> ""]

\* table_exists: False on any error
TableExists(d, table_name, fault) ==
    LET s == Query("SELECT EXISTS", table_name)
        split_ok == ~HasDot(table_name) \/ DotCount(table_name) = 1
        schema == IF HasDot(table_name) THEN SplitDot(table_name)[1] ELSE DbSchema
        table == IF HasDot(table_name) THEN SplitDot(table_name)[2] ELSE table_name
    IN  IF ~split_ok THEN [ret |-> FALSE, log |-> <<>>, swallowed |-> "ValueError"]
        ELSE IF fault THEN [ret |-> FALSE, log |-> <<Entry(s, FALSE)>>,
                            swallowed |-> ConnectionLost]
        ELSE [ret |-> schema = DbSchema /\ table \in DOMAIN d.tables,
              log |-> <<Entry(s, TRUE)>>, swallowed |-> ""]

\* ------------------------------------------------------------------------
\* AuditFunctions
\* ------------------------------------------------------------------------
\* result of a method: the exception it raised (or NoExc), the database it
\* left, the statements it issued, its return value
Raise(d, e, log) == [exc |-> e, db |-> d, log |-> log, ret |-> <<>>]

Return(d, ret, log) == [exc |-> NoExc, db |-> d, log |-> log, ret |-> ret]

\* get_table_structure: the ordered column names of schema.table
GetTableStructure(d, table_name, fault) ==
    LET schema == IF HasDot(table_name) THEN SplitDot(table_name)[1] ELSE <<"public">>
        table == IF HasDot(table_name)
                 THEN SubSeq(table_name, FirstDot(table_name) + 1, Len(table_name))
                 ELSE table_name
        Then(r) ==
            IF r.exc # NoExc
            THEN Raise(d, Wrap("AuditCreationError", "Error obteniendo estructura de: ",
                               r.exc), r.log)
            ELSE Return(d, IF schema = <<"public">> /\ table \in DOMAIN d.tables
                           THEN d.tables[table].cols ELSE <<>>, r.log)
    IN  Then(ExecuteQuery(d, Query("SELECT COLUMNS", table_name), TRUE, fault))

\* _get_encryption_key as it would be if it fell back to a built-in key
GetEncryptionKeyWithDefault(d, fault) ==
    LET Then(r) ==
            IF r.exc # NoExc THEN Raise(d, r.exc, r.log)
            ELSE IF d.clave # NoKey THEN Return(d, d.clave, r.log)
            ELSE Return(d, "k1", r.log)
    IN  Then(ExecuteQuery(d, Query("SELECT CLAVE", <<"clave_secreta">>), TRUE, fault))

\* _get_encryption_key
GetEncryptionKey(d, fault) ==
    LET Then(r) ==
            IF r.exc # NoExc THEN Raise(d, r.exc, r.log)
            ELSE IF d.clave # NoKey THEN Return(d, d.clave, r.log)
            ELSE Raise(d, NewExc("AuditCreationError",
                                 "No se encontro clave de encriptacion en clave_secreta"),
                       r.log)
    IN  Then(ExecuteQuery(d, Query("SELECT CLAVE", <<"clave_secreta">>), TRUE, fault))

\* _encrypt_name raises ValueError for a key AES rejects
InvalidKeySize == NewExc("ValueError", "Invalid key size")

AuditExtras == << <<"usuario_accion">>, <<"fecha_accion">>, <<"accion_sql">> >>

EncryptAll(names, key) == [i \in 1..Len(names) |-> EncryptName(names[i], key)]

\* the column list as it would be with the audit columns leading
AuditColumnsExtrasFirst(table_structure, key) ==
    [i \in 1..(Len(table_structure) + Len(AuditExtras)) |->
        ColDef((EncryptAll(AuditExtras, key) \o EncryptAll(table_structure, key))[i],
               "BYTEA")]

\* the column definitions of create_audit_table: one BYTEA column per column
\* of the source under its encrypted name, then the three audit columns
AuditColumns(table_structure, key) ==
    [i \in 1..(Len(table_structure) + Len(AuditExtras)) |->
        ColDef((EncryptAll(table_structure, key) \o EncryptAll(AuditExtras, key))[i],
               "BYTEA")]

\* the VALUES list of the trigger function: one value per column of the source,
\* then session user, time and operation
ValuesList(table_structure) ==
    table_structure \o << <<"SESSION_USER">>, <<"NOW()">>, <<"TG_OP">> >>

\* the body of the trigger function as it would be if its DELETE branch
\* returned NULL
TriggerBodyDeleteReturnsNull ==
    [insert |-> [image |-> "NEW", ret |-> "NEW"],
     update |-> [image |-> "NEW", ret |-> "NEW"],
     delete |-> [image |-> "OLD", ret |-> "NULL"]]

\* the body of the trigger function: INSERT and UPDATE record NEW and return
\* NEW, DELETE records OLD (values_str.replace('NEW.', 'OLD.')) and returns OLD
TriggerBody ==
    [insert |-> [image |-> "NEW", ret |-> "NEW"],
     update |-> [image |-> "NEW", ret |-> "NEW"],
     delete |-> [image |-> "OLD", ret |-> "OLD"]]

\* create_audit_table(original_table, audit_table_name, table_structure):
\* the audit_table_name argument is overwritten before any use
CreateAuditTable(d, original_table, table_structure, fault) ==
    LET prefix == "Error creando tabla de auditoria: "
        Finish(k, r) ==
            IF r.exc # NoExc
            THEN Raise(r.db, Wrap("AuditCreationError", prefix, r.exc), k.log \o r.log)
            ELSE Return(r.db, <<>>, k.log \o r.log)
        Statements(key) ==
            << Query("DROP TABLE", <<"aud_">> \o EncryptName(original_table, key)),
               Stmt("CREATE TABLE", <<"aud_">> \o EncryptName(original_table, key), <<>>,
                    AuditColumns(table_structure, key), "", "", <<>>) >>
        WithKey(k) ==
            IF k.exc # NoExc THEN Raise(d, Wrap("AuditCreationError", prefix, k.exc), k.log)
            ELSE IF ~KeyValid(k.ret)
                 THEN Raise(d, Wrap("AuditCreationError", prefix, InvalidKeySize), k.log)
            ELSE Finish(k, RunFrom(d, Statements(k.ret), 1, fault - 1))
    IN  WithKey(GetEncryptionKey(d, fault = 1))

\* create_audit_function(table_name, audit_table_name)
CreateAuditFunction(d, table_name, fault) ==
    LET prefix == "Error creando funcion de auditoria: "
        Finish(k, ts, r) ==
            IF r.exc # NoExc
            THEN Raise(r.db, Wrap("AuditCreationError", prefix, r.exc),
                       k.log \o ts.log \o r.log)
            ELSE Return(r.db, <<>>, k.log \o ts.log \o r.log)
        Statements(key, table_structure) ==
            << Query("DROP FUNCTION", EncryptName(table_name, key) \o <<"_audit">>),
               [Stmt("CREATE FUNCTION", EncryptName(table_name, key) \o <<"_audit">>,
                     <<"aud_">> \o EncryptName(table_name, key),
                     ValuesList(table_structure), "", "", <<>>)
                  EXCEPT !.body = TriggerBody] >>
        WithStructure(k, ts) ==
            IF ts.exc # NoExc
            THEN Raise(d, Wrap("AuditCreationError", prefix, ts.exc), k.log \o ts.log)
            ELSE Finish(k, ts, RunFrom(d, Statements(k.ret, ts.ret), 1, fault - 2))
        WithKey(k) ==
            IF k.exc # NoExc THEN Raise(d, Wrap("AuditCreationError", prefix, k.exc), k.log)
            ELSE IF ~KeyValid(k.ret)
                 THEN Raise(d, Wrap("AuditCreationError", prefix, InvalidKeySize), k.log)
            ELSE WithStructure(k, GetTableStructure(d, table_name, fault = 2))
    IN  WithKey(GetEncryptionKey(d, fault = 1))

TriggerEvents == <<"insert", "update", "delete">>

\* the trigger statements as they would be if all three fired AFTER
TriggerTimingAllAfter(event) == "AFTER"

\* AFTER INSERT, AFTER UPDATE, BEFORE DELETE
TriggerTiming(event) == IF event = "delete" THEN "BEFORE" ELSE "AFTER"

\* create_audit_triggers(table_name)
CreateAuditTriggers(d, table_name, fault) ==
    LET prefix == "Error creando triggers: "
        name(i) == table_name \o <<"_audit_", TriggerEvents[i]>>
        Finish(k, r) ==
            IF r.exc # NoExc
            THEN Raise(r.db, Wrap("AuditCreationError", prefix, r.exc), k.log \o r.log)
            ELSE Return(r.db, <<>>, k.log \o r.log)
        drop_triggers == [i \in 1..3 |->
            Stmt("DROP TRIGGER", name(i), table_name, <<>>, "", "", <<>>)]
        triggers(key) == [i \in 1..3 |->
            [Stmt("CREATE TRIGGER", name(i), table_name, <<>>, TriggerEvents[i],
                  TriggerTiming(TriggerEvents[i]),
                  EncryptName(table_name, key) \o <<"_audit">>)
               EXCEPT !.level = "ROW"]]
        WithKey(k) ==
            IF k.exc # NoExc THEN Raise(d, Wrap("AuditCreationError", prefix, k.exc), k.log)
            ELSE IF ~KeyValid(k.ret)
                 THEN Raise(d, Wrap("AuditCreationError", prefix, InvalidKeySize), k.log)
            ELSE Finish(k, RunFrom(d, drop_triggers \o triggers(k.ret), 1, fault - 1))
    IN  WithKey(GetEncryptionKey(d, fault = 1))

\* drop_audit_triggers(table_name): every exception ends up in a warning
DropAuditTriggers(d, table_name, fault) ==
    LET drops(table) == [i \in 1..3 |->
            Stmt("DROP TRIGGER", table \o <<"_audit_", TriggerEvents[i]>>,
                 table_name, <<>>, "", "", <<>>)]
        Warn(r) == Return(r.db, r.exc.root, r.log)
    IN  IF DotCount(table_name) # 1 THEN Return(d, "ValueError", <<>>)
        ELSE Warn(RunFrom(d, drops(SplitDot(table_name)[2]), 1, fault))

\* drop_audit_function as it would be if it dropped the audit table as well
DropAuditFunctionAndTable(d, table_name, fault) ==
    LET Warn(k, r) == Return(r.db, r.exc.root, k.log \o r.log)
        Statements(key) ==
            << Query("DROP FUNCTION CASCADE", EncryptName(table_name, key) \o <<"_audit">>),
               Query("DROP TABLE", <<"aud_">> \o EncryptName(table_name, key)) >>
        WithKey(k) ==
            IF k.exc # NoExc THEN Return(d, k.exc.root, k.log)
            ELSE IF ~KeyValid(k.ret) THEN Return(d, InvalidKeySize.root, k.log)
            ELSE Warn(k, RunFrom(d, Statements(k.ret), 1, fault - 1))
    IN  WithKey(GetEncryptionKey(d, fault = 1))

\* drop_audit_function(table_name): every exception ends up in a warning
DropAuditFunction(d, table_name, fault) ==
    LET Warn(k, r) == Return(r.db, r.exc.root, k.log \o r.log)
        Statements(key) ==
            << Query("DROP FUNCTION CASCADE", EncryptName(table_name, key) \o <<"_audit">>) >>
        WithKey(k) ==
            IF k.exc # NoExc THEN Return(d, k.exc.root, k.log)
            ELSE IF ~KeyValid(k.ret) THEN Return(d, InvalidKeySize.root, k.log)
            ELSE Warn(k, RunFrom(d, Statements(k.ret), 1, fault - 1))
    IN  WithKey(GetEncryptionKey(d, fault = 1))

\* check_triggers_exist(table_name): False on any exception
CheckTriggersExist(d, table_name, fault) ==
    IF DotCount(table_name) # 1 THEN FALSE
    ELSE LET schema == SplitDot(table_name)[1]
             table == SplitDot(table_name)[2]
         IN  ~fault /\ schema = DbSchema
             /\ \E g \in d.triggers :
                    g.table = table /\ StartsWith(g.name, table \o <<"_audit_">>)

\* check_function_exists(table_name): False on any exception
CheckFunctionExists(d, table_name, fault) ==
    IF DotCount(table_name) # 1 THEN FALSE
    ELSE LET schema == SplitDot(table_name)[1]
             function_name == SplitDot(table_name)[2] \o <<"_audit">>
         IN  ~fault /\ schema = DbSchema /\ function_name \in DOMAIN d.functions

\* ------------------------------------------------------------------------
\* AuditManager: state
\* ------------------------------------------------------------------------
VARIABLES
    db,       \* the database
    pc,       \* where the manager's caller is: "idle" or a step of create/remove
    op,       \* the operation in flight or last completed:
              \*   [kind, t, rekeyed, after_create], where rekeyed records that
              \*   the stored key changed since the call, and after_create that
              \*   the operation completed just before was a successful
              \*   create of the same table under a key unchanged since
    loc,      \* locals of create_audit_for_table: table_structure, audit_table_name
    issued,   \* statements op handed to execute_query so far: [stmt, ok, step]
    result,   \* outcome of op: [exc, ret, rows]: the exception raised, the
              \*   status returned, the rows returned
    keyChanges, \* how often the stored key has changed
    faults,   \* how many connections have failed
    bulk,     \* create_bulk_audit: its arguments, its loop index i, its
              \*   results, the calls it made to progress_callback, and the
              \*   tables whose create it has started
    ident,    \* _encrypt_name on its own: the base64 text it is given and
              \*   the identifier it returns
    win,      \* the main window: selection, worker threads, event queue
    viewer    \* the audit viewer: column mapping and sort state

vars == <<db, pc, op, loc, issued, result, keyChanges, faults, bulk, ident, win, viewer>>

\* the state outside the manager and the database
uiVars == <<ident, win, viewer>>

NoIdent == [b64 |-> <<>>, name |-> <<>>]

NoLoc == [table_structure |-> <<>>, audit_table_name |-> <<>>]

\* a thread of the main window as it starts: kind ("connect", "create",
\* "remove"), pc (where it is), selected_tables and the index i of the table
\* its loop is at, the locals of the manager call it is in, the tables it has
\* called the manager for (attempted), whether an exception has reached its
\* except clause (raised), and the shared UI state it has itself read or
\* written (touched)
NewWorker(kind) ==
    [kind |-> kind, pc |-> "start", selected_tables |-> <<>>, i |-> 0, loc |-> NoLoc,
     attempted |-> <<>>, raised |-> FALSE, touched |-> {}]

\* the main window before connecting: no tables listed, no thread (workers is
\* the bag of the threads alive), no callback waiting in the event queue
NoWin == [tables |-> <<>>, selected |-> {}, workers |-> EmptyBag, queue |-> <<>>]

\* no data query has been built
NoQuery == [from |-> <<>>, order_by |-> <<>>, order |-> "", where |-> <<>>]

NoFilters == [usuario |-> "", accion |-> ""]

\* current_sort_column = None
NoColumn == <<>>

\* no viewer window; the fields AuditViewer.__init__ sets are those of lines
\* 17-27, clicked is the label of the header the callback that ran last was
\* given (NoColumn: it was not _on_header_click), dialog the message box the
\* last load showed
NoViewer ==
    [open |-> FALSE, enhanced |-> FALSE, table_name |-> <<>>,
     encrypted_columns |-> <<>>, display_columns |-> <<>>,
     column_mapping |-> [l \in {} |-> <<>>],
     current_sort_column |-> NoColumn, current_sort_order |-> "ASC",
     filters |-> NoFilters, query |-> NoQuery, dialog |-> "", clicked |-> NoColumn]

NoBulk ==
    [active |-> FALSE, table_names |-> <<>>, callback |-> FALSE, i |-> 0,
     success |-> <<>>, failed |-> <<>>, total |-> 0, progress |-> <<>>,
     attempts |-> <<>>]

\* what get_audit_status returns: None, or the dict of four flags
StatusNone ==
    [none |-> TRUE, table_exists |-> FALSE, audit_table_exists |-> FALSE,
     triggers_exist |-> FALSE, function_exists |-> FALSE]

Pending == [exc |-> NoExc, ret |-> StatusNone, rows |-> <<>>]

Tag(log, step) == [i \in 1..Len(log) |-> [stmt |-> log[i].stmt, ok |-> log[i].ok, step |-> step]]

\* the database before any audit: the table users and the stored key k
SourceDb(k) ==
    [clave |-> k,
     tables |-> [n \in {<<"users">>} |->
                   [cols |-> UsersColumns, types |-> UsersTypes, rows |-> <<>>]],
     functions |-> [n \in {} |-> [target |-> <<>>, nvals |-> 0, vals |-> <<>>,
                                  body |-> NoBody]],
     triggers |-> {},
     now |-> 0]

\* no operation of the manager has been called
InitCaller ==
    /\ pc = "idle"
    /\ op = [kind |-> "none", t |-> <<>>, rekeyed |-> FALSE, after_create |-> FALSE]
    /\ loc = NoLoc
    /\ issued = <<>>
    /\ result = Pending
    /\ keyChanges = 0
    /\ faults = 0
    /\ bulk = NoBulk

\* the manager has been constructed; clave_secreta holds a well-formed key,
\* a key AES rejects, or no row
InitManager ==
    /\ db \in {SourceDb(k) : k \in {"k1", "kbad", NoKey}}
    /\ InitCaller

Init == InitManager /\ ident = NoIdent /\ win = NoWin /\ viewer = NoViewer

\* the record of a new operation kind(t), called when op has completed
NewOp(kind, t) ==
    [kind |-> kind, t |-> t, rekeyed |-> FALSE,
     after_create |-> op.kind = "create" /\ op.t = t /\ result.exc = NoExc /\ ~op.rekeyed]

\* a caller invokes kind(t) on the manager
Call(kind, t, first) ==
    /\ pc = "idle"
    /\ pc' = first
    /\ op' = NewOp(kind, t)
    /\ loc' = NoLoc
    /\ issued' = <<>>
    /\ result' = Pending
    /\ bulk' = NoBulk
    /\ UNCHANGED <<db, keyChanges, faults, ident, win, viewer>>

\* ------------------------------------------------------------------------
\* AuditManager.create_audit_for_table
\* ------------------------------------------------------------------------
CreateOrder == <<"c_exists", "c_structure", "c_name", "c_table", "c_function", "c_triggers">>

StepRank(p) == CHOOSE i \in 1..Len(CreateOrder) : CreateOrder[i] = p

\* the try block as it would be if a failing statement did not leave it
CreateNextIgnoringError(p, exc) ==
    IF StepRank(p) = Len(CreateOrder) THEN "idle" ELSE CreateOrder[StepRank(p) + 1]

\* the try block runs its statements in order; an exception leaves it
CreateNext(p, exc) ==
    IF exc # NoExc \/ StepRank(p) = Len(CreateOrder) THEN "idle"
    ELSE CreateOrder[StepRank(p) + 1]

\* the except clause as it would be without {str(e)} in its message
CreateExceptNoCause(e) ==
    [e EXCEPT !.type = "AuditCreationError", !.msg = <<"Error creando auditoria para: ">>]

\* except Exception as e: raise AuditCreationError(f"Error creando ... {str(e)}")
CreateExcept(e) == Wrap("AuditCreationError", "Error creando auditoria para: ", e)

\* _get_audit_table_name as it would be if the name were derived once, from
\* the first key, and remembered
GetAuditTableNameRemembered(d, table_name, fault) ==
    LET WithKey(k) ==
            IF k.exc # NoExc THEN k
            ELSE Return(d, LowerName(<<"aud_">> \o EncryptName(table_name, "k1")), k.log)
    IN  WithKey(GetEncryptionKey(d, fault))

\* _get_audit_table_name
GetAuditTableName(d, table_name, fault) ==
    LET WithKey(k) ==
            IF k.exc # NoExc THEN k
            ELSE IF ~KeyValid(k.ret) THEN Raise(d, InvalidKeySize, k.log)
            ELSE Return(d, LowerName(<<"aud_">> \o EncryptName(table_name, k.ret)), k.log)
    IN  WithKey(GetEncryptionKey(d, fault))

\* the connection of the fault-th statement of a method fails (0: none);
\* log is what the method issued, the failing statement last
Inject(fault, log) ==
    /\ fault = 0 \/ (fault = Len(log) /\ faults < MaxFaults)
    /\ faults' = IF fault = 0 THEN faults ELSE faults + 1

\* one statement of the try block has run with result r
CreateStep(p, r, fault) ==
    /\ pc = p
    /\ Inject(fault, r.log)
    /\ op.kind = "create"
    /\ db' = r.db
    /\ issued' = issued \o Tag(r.log, p)
    /\ pc' = IF bulk.active /\ CreateNext(p, r.exc) = "idle" THEN "b_record"
             ELSE CreateNext(p, r.exc)
    /\ result' = IF r.exc # NoExc THEN [Pending EXCEPT !.exc = CreateExcept(r.exc)]
                 ELSE result
    /\ UNCHANGED <<op, keyChanges, bulk, ident, win, viewer>>

CallCreate == \E t \in TableRefs : Call("create", t, "c_exists")

\* the first statement of create as it would be without the raise
CreateTableExistsNoCheck ==
    \E fault \in 0..1 :
        \E e \in {TableExists(db, op.t, fault = 1)} :
            /\ CreateStep("c_exists", Return(db, <<>>, e.log), fault)
            /\ UNCHANGED loc

CreateTableExists ==
    \E fault \in 0..1 :
        \E e \in {TableExists(db, op.t, fault = 1)} :
            LET notFound == [NewExc("TableNotFoundError", "Tabla no encontrada: ")
                               EXCEPT !.root = IF e.swallowed # "" THEN e.swallowed ELSE @]
            IN  /\ CreateStep("c_exists",
                       IF e.ret THEN Return(db, <<>>, e.log)
                       ELSE Raise(db, notFound, e.log),
                       fault)
                /\ UNCHANGED loc

CreateGetStructure ==
    \E fault \in 0..1 :
        \E r \in {GetTableStructure(db, op.t, fault = 1)} :
            /\ CreateStep("c_structure", r, fault)
            /\ loc' = [loc EXCEPT !.table_structure = r.ret]

CreateGetName ==
    \E fault \in 0..1 :
        \E r \in {GetAuditTableName(db, op.t, fault = 1)} :
            /\ CreateStep("c_name", r, fault)
            /\ loc' = [loc EXCEPT !.audit_table_name = r.ret]

CreateTable ==
    \E fault \in 0..3 :
        /\ CreateStep("c_table", CreateAuditTable(db, op.t, loc.table_structure, fault), fault)
        /\ UNCHANGED loc

CreateFunction ==
    \E fault \in 0..4 :
        /\ CreateStep("c_function", CreateAuditFunction(db, op.t, fault), fault)
        /\ UNCHANGED loc

CreateTriggers ==
    \E fault \in 0..7 :
        /\ CreateStep("c_triggers", CreateAuditTriggers(db, op.t, fault), fault)
        /\ UNCHANGED loc

\* ------------------------------------------------------------------------
\* AuditManager.remove_audit_for_table
\* ------------------------------------------------------------------------
\* neither callee raises, so the except clause of remove is never entered
RemoveStep(p, next, r, fault) ==
    /\ pc = p
    /\ Inject(fault, r.log)
    /\ op.kind = "remove"
    /\ db' = r.db
    /\ issued' = issued \o Tag(r.log, p)
    /\ pc' = next
    /\ UNCHANGED <<op, loc, result, keyChanges, bulk, ident, win, viewer>>

CallRemove == \E t \in TableRefs : Call("remove", t, "r_triggers")

RemoveTriggers ==
    \E fault \in 0..3 : RemoveStep("r_triggers", "r_function", DropAuditTriggers(db, op.t, fault), fault)

\* remove with lines 74-75 in force: the audit table is dropped as well
RemoveFunctionThenTable ==
    \E fault \in 0..2 :
        \E r \in {DropAuditFunction(db, op.t, fault)} :
            \E n \in {GetAuditTableName(r.db, op.t, FALSE)} :
                \E q \in {IF n.exc # NoExc THEN [db |-> r.db]
                          ELSE [db |-> ExecDDL(r.db, Query("DROP TABLE", n.ret)).db]} :
                    RemoveStep("r_function", "idle",
                               [exc |-> NoExc, db |-> q.db, log |-> r.log, ret |-> <<>>],
                               fault)

RemoveFunction ==
    \E fault \in 0..2 : RemoveStep("r_function", "idle", DropAuditFunction(db, op.t, fault), fault)

\* ------------------------------------------------------------------------
\* AuditManager.get_audit_status
\* ------------------------------------------------------------------------
\* failing: the queries whose connection fails, among 1 (key), 2 (table),
\* 3 (audit table), 4 (triggers), 5 (function)
AuditStatus(d, table_name, failing) ==
    LET WithName(n) ==
            IF n.exc # NoExc THEN StatusNone
            ELSE [none |-> FALSE,
                  table_exists |-> TableExists(d, table_name, 2 \in failing).ret,
                  audit_table_exists |-> TableExists(d, n.ret, 3 \in failing).ret,
                  triggers_exist |-> CheckTriggersExist(d, table_name, 4 \in failing),
                  function_exists |-> CheckFunctionExists(d, table_name, 5 \in failing)]
    IN  WithName(GetAuditTableName(d, table_name, 1 \in failing))

\* the queries get_audit_status issues, in order, with their outcome
StatusLog(d, table_name, failing) ==
    LET probe(i, sql, obj) == <<[stmt |-> Query(sql, obj), ok |-> i \notin failing,
                                 step |-> "status"]>>
        WithName(n) ==
            Tag(n.log, "status") \o
            IF n.exc # NoExc THEN <<>>
            ELSE probe(2, "SELECT EXISTS", table_name) \o probe(3, "SELECT EXISTS", n.ret) \o
                 IF DotCount(table_name) # 1 THEN <<>>
                 ELSE probe(4, "SELECT TRIGGERS", table_name) \o
                      probe(5, "SELECT ROUTINES", table_name)
    IN  WithName(GetAuditTableName(d, table_name, 1 \in failing))

GetAuditStatus ==
    \E t \in TableRefs, failing \in SUBSET (1..5) :
        /\ pc = "idle"
        /\ faults + Cardinality(failing) <= MaxFaults
        /\ 1 \in failing => failing = {1}
        /\ failing # {} /\ 1 \notin failing => ~AuditStatus(db, t, {}).none
        /\ failing \cap {4, 5} # {} => DotCount(t) = 1
        /\ faults' = faults + Cardinality(failing)
        /\ op' = NewOp("status", t)
        /\ result' = [Pending EXCEPT !.ret = AuditStatus(db, t, failing)]
        /\ issued' = StatusLog(db, t, failing)
        /\ loc' = NoLoc
        /\ bulk' = NoBulk
        /\ UNCHANGED <<db, pc, keyChanges, ident, win, viewer>>

\* ------------------------------------------------------------------------
\* AuditManager.create_bulk_audit
\* ------------------------------------------------------------------------
\* the argument lists: every sequence of at most MaxBulk table references
BulkInputs == UNION {[1..n -> TableRefs] : n \in 0..MaxBulk}

\* create_bulk_audit(table_names, progress_callback): results is initialised
CallBulk ==
    \E table_names \in BulkInputs, callback \in BOOLEAN :
        /\ pc = "idle"
        /\ pc' = "b_loop"
        /\ op' = NewOp("bulk", <<>>)
        /\ bulk' = [NoBulk EXCEPT !.active = TRUE, !.table_names = table_names,
                                  !.callback = callback, !.total = Len(table_names)]
        /\ loc' = NoLoc
        /\ issued' = <<>>
        /\ result' = Pending
        /\ UNCHANGED <<db, keyChanges, faults, ident, win, viewer>>

\* the head of the for loop: the next table's create is called, or the
\* results are returned when the list is exhausted
BulkLoop ==
    /\ pc = "b_loop"
    /\ IF bulk.i < Len(bulk.table_names)
       THEN /\ pc' = "c_exists"
            /\ op' = NewOp("create", bulk.table_names[bulk.i + 1])
            /\ bulk' = [bulk EXCEPT !.attempts = Append(@, bulk.table_names[bulk.i + 1])]
       ELSE /\ pc' = "idle"
            /\ op' = NewOp("bulk", <<>>)
            /\ bulk' = [bulk EXCEPT !.active = FALSE]
    /\ loc' = NoLoc
    /\ issued' = <<>>
    /\ result' = Pending
    /\ UNCHANGED <<db, keyChanges, faults, ident, win, viewer>>

\* the loop body as it would be if a failed table were not recorded
RecordDroppingFailures(b, exc) ==
    IF exc = NoExc
    THEN [b EXCEPT !.success = Append(@, b.table_names[b.i + 1])]
    ELSE b

\* results['success'].append(table_name), or in the except clause
\* results['failed'].append({'table': table_name, 'error': str(e)})
Record(b, exc) ==
    IF exc = NoExc
    THEN [b EXCEPT !.success = Append(@, b.table_names[b.i + 1])]
    ELSE [b EXCEPT !.failed = Append(@, [table |-> b.table_names[b.i + 1],
                                         error |-> exc.msg])]

\* the callback as it would be called with i instead of i + 1
ProgressZeroBased(b) ==
    IF b.callback
    THEN [b EXCEPT !.progress = Append(@, <<b.i, Len(b.table_names), b.table_names[b.i + 1]>>)]
    ELSE b

\* if progress_callback: progress_callback(i + 1, len(table_names), table_name)
Progress(b) ==
    IF b.callback
    THEN [b EXCEPT !.progress = Append(@, <<b.i + 1, Len(b.table_names),
                                            b.table_names[b.i + 1]>>)]
    ELSE b

\* create has returned or raised inside the loop body: the table is recorded,
\* the callback is called, and the loop goes on to its next index
BulkRecord ==
    /\ pc = "b_record"
    /\ pc' = "b_loop"
    /\ bulk' = [Progress(Record(bulk, result.exc)) EXCEPT !.i = @ + 1]
    /\ UNCHANGED <<db, op, loc, issued, result, keyChanges, faults, ident, win, viewer>>

\* ------------------------------------------------------------------------
\* AuditManager.get_audit_data
\* ------------------------------------------------------------------------
\* the except clause of get_audit_data as it would be if it raised
DataExceptRaising(e, log) ==
    [exc |-> Wrap("AuditCreationError", "Error obteniendo datos de auditoria para: ", e),
     rows |-> <<>>, log |-> log]

\* except Exception: log the error, return []
DataExcept(e, log) == [exc |-> NoExc, rows |-> <<>>, log |-> log]

\* SELECT * FROM {audit_table_name} ORDER BY fecha_accion DESC LIMIT %s
SelectAuditRows(audit_table_name, limit) ==
    [Stmt("SELECT ROWS", audit_table_name, <<>>, << <<"fecha_accion">> >>, "", "", <<>>)
       EXCEPT !.limit = limit]

\* get_audit_data(table_name, limit, decrypt_sensitive); fault is the index
\* of the query whose connection fails (0: none).  decrypt_sensitive, on a
\* non-empty result, fetches the column names of the source and rewrites
\* field values in place; the rows of the model carry no field values.
GetAuditDataFrom(d, table_name, limit, decrypt_sensitive, fault) ==
    LET Decrypted(log, results) ==
            IF decrypt_sensitive /\ results # <<>>
            THEN [exc |-> NoExc, rows |-> results,
                  log |-> log \o GetTableStructure(d, table_name, fault = 4).log]
            ELSE [exc |-> NoExc, rows |-> results, log |-> log]
        Queried(n, e, q) ==
            IF q.exc # NoExc THEN DataExcept(q.exc, n.log \o e.log \o q.log)
            ELSE Decrypted(n.log \o e.log \o q.log,
                           Limit(OrderDesc(d.tables[n.ret].rows), limit))
        Probed(n, e) ==
            IF ~e.ret THEN [exc |-> NoExc, rows |-> <<>>, log |-> n.log \o e.log]
            ELSE Queried(n, e, ExecuteQuery(d, SelectAuditRows(n.ret, limit), TRUE, fault = 3))
        WithName(n) ==
            IF n.exc # NoExc THEN DataExcept(n.exc, n.log)
            ELSE Probed(n, TableExists(d, n.ret, fault = 2))
    IN  WithName(GetAuditTableName(d, table_name, fault = 1))

\* limit=100, the default of get_audit_data
DefaultLimit == 100

\* a call get_audit_data(t, limit, decrypt_sensitive) with its arguments
\* taken from limits and flags
GetAuditDataWith(limits, flags) ==
    \E t \in TableRefs, limit \in limits, decrypt_sensitive \in flags, fault \in 0..4 :
        \E r \in {GetAuditDataFrom(db, t, limit, decrypt_sensitive, fault)} :
            /\ pc = "idle"
            /\ Inject(fault, r.log)
            /\ op' = NewOp("data", t)
            /\ result' = [Pending EXCEPT !.exc = r.exc, !.rows = r.rows]
            /\ issued' = Tag(r.log, "data")
            /\ loc' = NoLoc
            /\ bulk' = NoBulk
            /\ UNCHANGED <<db, pc, keyChanges, ident, win, viewer>>

GetAuditData == GetAuditDataWith(1..MaxLimit, BOOLEAN)

\* get_audit_data(t), limit and decrypt_sensitive left at their defaults
GetAuditDataDefaults == GetAuditDataWith({DefaultLimit}, {FALSE})

\* ------------------------------------------------------------------------
\* AuditFunctions._encrypt_name on every base64 text
\* ------------------------------------------------------------------------
InitName ==
    /\ InitManager /\ db.clave = "k1"
    /\ win = NoWin /\ viewer = NoViewer
    /\ ident \in {[b64 |-> b, name |-> <<>>] :
                    b \in UNION {[1..n -> B64Sample] : n \in 1..MaxB64Len}}

\* lines 140-146 of _encrypt_name applied to the base64 text
MakeIdentifier ==
    /\ ident.b64 # <<>> /\ ident.name = <<>>
    /\ ident' = [ident EXCEPT !.name = SafeIdentifier(ident.b64)]
    /\ UNCHANGED <<db, pc, op, loc, issued, result, keyChanges, faults, bulk, win, viewer>>

SpecName == InitName /\ [][MakeIdentifier]_vars

\* ------------------------------------------------------------------------
\* Environment: other sessions of the database
\* ------------------------------------------------------------------------
\* the row of clave_secreta is replaced or deleted
SetKey ==
    \E k \in Keys \cup {NoKey} :
        /\ k # db.clave
        /\ keyChanges < MaxKeyChanges
        /\ keyChanges' = keyChanges + 1
        /\ db' = [db EXCEPT !.clave = k]
        /\ op' = [op EXCEPT !.rekeyed = TRUE]
        /\ UNCHANGED <<pc, loc, issued, result, faults, bulk, ident, win, viewer>>

\* the row a trigger function f inserts when it runs for event: the image of
\* the row its branch for TG_OP reads, NOW() and TG_OP
AuditRow(d, event, f) ==
    [accion |-> event, image |-> f.body[event].image, ts |-> d.now, nvals |-> f.nvals]

\* the triggers of table that fire on event
FiringTriggers(d, table, event) == {g \in d.triggers : g.table = table /\ g.event = event}

\* the function of g inserts into a missing table, or more values than the
\* table has columns: the statement that fired g aborts
TriggerFails(d, g) ==
    LET f == d.functions[g.fn]
    IN  f.target \notin DOMAIN d.tables \/ f.nvals > Len(d.tables[f.target].cols)

\* a row-level BEFORE trigger whose function returns NULL: the operation on
\* the row is skipped, and the AFTER triggers do not fire
Suppresses(d, g, event) ==
    g.timing = "BEFORE" /\ g.level = "ROW" /\ d.functions[g.fn].body[event].ret = "NULL"

\* a row of users is inserted, updated or deleted by another session: each
\* trigger of that event runs its function, which inserts one row into its
\* target table; the operation itself is recorded in the rows of users
RowEvent ==
    \E event \in {"insert", "update", "delete"} :
        LET fire == FiringTriggers(db, <<"users">>, event)
            skip == \E g \in fire : Suppresses(db, g, event)
            ran == IF skip THEN {g \in fire : g.timing = "BEFORE"} ELSE fire
            fnOf(n) == db.functions[(CHOOSE g \in ran : db.functions[g.fn].target = n).fn]
            targets == {db.functions[g.fn].target : g \in ran}
        IN  /\ db.now < MaxClock
            /\ db' = IF \E g \in fire : TriggerFails(db, g)
                     THEN [db EXCEPT !.now = @ + 1]
                     ELSE [db EXCEPT !.now = @ + 1,
                             !.tables = [n \in DOMAIN db.tables |->
                                IF n \in targets
                                THEN [db.tables[n] EXCEPT !.rows =
                                         Append(@, AuditRow(db, event, fnOf(n)))]
                                ELSE IF n = <<"users">> /\ ~skip
                                THEN [db.tables[n] EXCEPT !.rows =
                                         Append(@, [event |-> event, ts |-> db.now])]
                                ELSE db.tables[n]]]
            /\ UNCHANGED <<pc, op, loc, issued, result, keyChanges, faults, bulk,
                           ident, win, viewer>>

\* ------------------------------------------------------------------------
\* AuditViewer and EnhancedAuditViewer (gui/components/audit_viewer.py)
\* ------------------------------------------------------------------------
\* the labels _get_original_table_columns puts after the source's columns
AuditLabels == << <<"usuario">>, <<"fecha">>, <<"accion">> >>

\* AuditViewer._get_encryption_key
ViewerEncryptionKey(d, fault) ==
    LET Then(r) ==
            IF r.exc # NoExc THEN Raise(d, r.exc, r.log)
            ELSE IF d.clave # NoKey THEN Return(d, d.clave, r.log)
            ELSE Raise(d, NewExc("Exception", "No se encontro clave en clave_secreta"),
                       r.log)
    IN  Then(ExecuteQuery(d, Query("SELECT CLAVE", <<"clave_secreta">>), TRUE, fault))

\* _get_audit_table_info: the shadow name under the stored key, which must
\* be a table of schema public
GetAuditTableInfo(d, table_name, fault) ==
    LET Name(k) == LowerName(<<"aud_">> \o EncryptName(table_name, k))
        Checked(k, n, r) ==
            IF r.exc # NoExc THEN Raise(d, r.exc, k.log \o r.log)
            ELSE IF n \notin DOMAIN d.tables
                 THEN Raise(d, NewExc("Exception", "Tabla de auditoria no existe"),
                            k.log \o r.log)
            ELSE Return(d, n, k.log \o r.log)
        WithKey(k) ==
            IF k.exc # NoExc THEN k
            ELSE IF ~KeyValid(k.ret) THEN Raise(d, InvalidKeySize, k.log)
            ELSE Checked(k, Name(k.ret),
                         ExecuteQuery(d, Query("SELECT COUNT TABLES", Name(k.ret)), TRUE,
                                      fault = 2))
    IN  WithKey(ViewerEncryptionKey(d, fault = 1))

\* the rows of information_schema.columns WHERE table_name = name AND
\* table_schema = 'public', in ordinal order
ColumnsOf(d, name) == IF name \in DOMAIN d.tables THEN d.tables[name].cols ELSE <<>>

\* the loop of _create_column_mapping: display_columns[i] is mapped to
\* encrypted_columns[i]; a label that occurs twice keeps its last column
ColumnMapping(display_columns, encrypted_columns) ==
    LET paired == {i \in 1..Len(display_columns) : i <= Len(encrypted_columns)}
        Last(l) == CHOOSE i \in paired :
                      /\ display_columns[i] = l
                      /\ \A j \in paired : display_columns[j] = l => j <= i
    IN  [l \in {display_columns[i] : i \in paired} |-> encrypted_columns[Last(l)]]

\* _build_order_clause, and the default _load_audit_data puts in place of an
\* empty clause: the column and the direction of ORDER BY
BuildOrderClause(v) ==
    LET default == [by |-> v.encrypted_columns[1], order |-> "DESC"]
    IN  IF v.current_sort_column = NoColumn THEN default
        ELSE IF v.current_sort_column \notin DOMAIN v.column_mapping THEN default
        ELSE [by |-> v.column_mapping[v.current_sort_column],
              order |-> v.current_sort_order]

\* _build_filtered_query: one WHERE condition per non-empty filter whose label
\* is in the mapping (AuditViewer itself has no filters)
BuildFilteredQuery(v) ==
    LET Cond(label, value) ==
            IF v.enhanced /\ value # "" /\ label \in DOMAIN v.column_mapping
            THEN << [label |-> label, col |-> v.column_mapping[label], value |-> value] >>
            ELSE <<>>
    IN  Cond(<<"usuario">>, v.filters.usuario) \o Cond(<<"accion">>, v.filters.accion)

\* the data query of _load_audit_data
DataQuery(v, audit_table_name) ==
    [from |-> audit_table_name, order_by |-> BuildOrderClause(v).by,
     order |-> BuildOrderClause(v).order, where |-> BuildFilteredQuery(v)]

QueryStmt(q) ==
    Stmt("SELECT ROWS", q.from, <<>>,
         <<q.order_by>> \o [i \in 1..Len(q.where) |-> q.where[i].col], "", "", <<>>)

\* _load_audit_data of viewer v; fault is the index of the query whose
\* connection fails (0: none); nomatch says that no row satisfies the WHERE
\* conditions (the rows of the model carry no field values).  The result is
\* the viewer afterwards and the queries issued.
LoadAuditData(v, d, fault, nomatch) ==
    LET Fails(w, log) == [v |-> [w EXCEPT !.dialog = "error"], log |-> log]
        NoData(q) == d.tables[q.from].rows = <<>> \/ (q.where # <<>> /\ nomatch)
        Fetched(w, q, log, r) ==
            IF r.exc # NoExc THEN Fails(w, log \o r.log)
            ELSE [v |-> [w EXCEPT !.query = q, !.dialog = IF NoData(q) THEN "info" ELSE ""],
                  log |-> log \o r.log]
        Fetch(w, q, log) == Fetched(w, q, log, ExecuteQuery(d, QueryStmt(q), TRUE, fault = 5))
        Mapped(w, name, log) ==
            IF w.encrypted_columns = <<>> THEN Fails(w, log)
            ELSE Fetch(w, DataQuery(w, name), log)
        Original(w, name, log, r) ==
            IF r.exc # NoExc THEN Fails(w, log \o r.log)
            ELSE IF ColumnsOf(d, LowerName(w.table_name)) = <<>> THEN Fails(w, log \o r.log)
            ELSE Mapped([w EXCEPT
                           !.display_columns =
                               ColumnsOf(d, LowerName(w.table_name)) \o AuditLabels,
                           !.column_mapping =
                               ColumnMapping(ColumnsOf(d, LowerName(w.table_name))
                                                \o AuditLabels,
                                             w.encrypted_columns)],
                        name, log \o r.log)
        Structure(name, log, r) ==
            IF r.exc # NoExc THEN Fails(v, log \o r.log)
            ELSE Original([v EXCEPT !.encrypted_columns = ColumnsOf(d, name)], name,
                          log \o r.log,
                          ExecuteQuery(d, Query("SELECT COLUMNS", LowerName(v.table_name)),
                                       TRUE, fault = 4))
        Info(n) ==
            IF n.exc # NoExc THEN Fails(v, n.log)
            ELSE Structure(n.ret, n.log,
                           ExecuteQuery(d, Query("SELECT COLUMNS", n.ret), TRUE, fault = 3))
    IN  Info(GetAuditTableInfo(d, v.table_name, fault))

\* a callback of the viewer that ends in _load_audit_data: v is the viewer as
\* the callback has changed it before loading
ViewerLoads(v, clicked) ==
    \E fault \in 0..5, nomatch \in BOOLEAN :
        \E r \in {LoadAuditData(v, db, fault, nomatch)} :
            /\ Inject(fault, r.log)
            /\ nomatch => r.v.dialog = "info" /\ db.tables[r.v.query.from].rows # <<>>
            /\ viewer' = [r.v EXCEPT !.clicked = clicked]
            /\ UNCHANGED <<db, pc, op, loc, issued, result, keyChanges, bulk, ident, win>>

\* AuditViewer(parent, table_name, ...) or EnhancedAuditViewer(...)
OpenViewer ==
    \E t \in TableRefs, enhanced \in BOOLEAN :
        /\ ~viewer.open
        /\ ViewerLoads([NoViewer EXCEPT !.open = TRUE, !.enhanced = enhanced,
                                        !.table_name = t], NoColumn)

\* the user closes the window
CloseViewer ==
    /\ viewer.open
    /\ viewer' = NoViewer
    /\ UNCHANGED <<db, pc, op, loc, issued, result, keyChanges, faults, bulk, ident, win>>

\* the button Actualizar
RefreshViewer ==
    /\ viewer.open
    /\ ViewerLoads(viewer, NoColumn)

\* lines 190-195 of _on_header_click as they would be if a new sort column
\* kept the order of the previous one
SortAfterClickKeepingOrder(v, display_column) ==
    IF v.current_sort_column = display_column
    THEN [v EXCEPT !.current_sort_order = IF @ = "ASC" THEN "DESC" ELSE "ASC"]
    ELSE [v EXCEPT !.current_sort_column = display_column]

\* lines 190-195 of _on_header_click
SortAfterClick(v, display_column) ==
    IF v.current_sort_column = display_column
    THEN [v EXCEPT !.current_sort_order = IF @ = "ASC" THEN "DESC" ELSE "ASC"]
    ELSE [v EXCEPT !.current_sort_column = display_column, !.current_sort_order = "ASC"]

\* _on_header_click on the heading of column column_index + 1; a click
\* elsewhere returns at once
OnHeaderClick ==
    \E i \in 1..Len(viewer.display_columns) :
        /\ viewer.open
        /\ ViewerLoads(SortAfterClick(viewer, viewer.display_columns[i]),
                       viewer.display_columns[i])

\* EnhancedAuditViewer._apply_filters with the texts of the two entries
ApplyFilters ==
    \E usuario \in {"", "bob"}, accion \in {"", "INSERT"} :
        /\ viewer.open /\ viewer.enhanced
        /\ ViewerLoads([viewer EXCEPT !.filters = [usuario |-> usuario, accion |-> accion]],
                       NoColumn)

\* EnhancedAuditViewer._clear_filters
ClearFilters ==
    /\ viewer.open /\ viewer.enhanced
    /\ ViewerLoads([viewer EXCEPT !.filters = NoFilters], NoColumn)

\* another session adds a column to users as the audit found it
\* (ALTER TABLE users ADD COLUMN phone)
AddColumn ==
    /\ db.tables[<<"users">>].cols = UsersColumns
    /\ db' = [db EXCEPT !.tables[<<"users">>].cols = Append(@, <<"phone">>),
                        !.tables[<<"users">>].types = Append(@, "text")]
    /\ UNCHANGED <<pc, op, loc, issued, result, keyChanges, faults, bulk, ident, win, viewer>>

\* another session drops the last column of users as the audit found it
DropColumn ==
    /\ db.tables[<<"users">>].cols = UsersColumns
    /\ db' = [db EXCEPT !.tables[<<"users">>].cols = SubSeq(@, 1, Len(@) - 1),
                        !.tables[<<"users">>].types = SubSeq(@, 1, Len(@) - 1)]
    /\ UNCHANGED <<pc, op, loc, issued, result, keyChanges, faults, bulk, ident, win, viewer>>

\* the database after create_audit_for_table('users') under key k1
AuditedDb ==
    LET t == <<"users">>
        d1 == CreateAuditTable(SourceDb("k1"), t, UsersColumns, 0).db
        d2 == CreateAuditFunction(d1, t, 0).db
    IN  CreateAuditTriggers(d2, t, 0).db

\* the same after one INSERT into users
RecordedDb ==
    LET shadow == LowerName(<<"aud_">> \o EncryptName(<<"users">>, "k1"))
        f == AuditedDb.functions[LowerName(EncryptName(<<"users">>, "k1") \o <<"_audit">>)]
    IN  [AuditedDb EXCEPT
           !.now = 1,
           !.tables[shadow].rows = <<AuditRow(AuditedDb, "insert", f)>>,
           !.tables[<<"users">>].rows = <<[event |-> "insert", ts |-> 0]>>]

\* no viewer is open; users has an audit, with or without a recorded row
InitViewer ==
    /\ db \in {AuditedDb, RecordedDb}
    /\ InitCaller
    /\ ident = NoIdent /\ win = NoWin /\ viewer = NoViewer

NextViewer ==
    \/ OpenViewer \/ CloseViewer \/ RefreshViewer \/ OnHeaderClick
    \/ ApplyFilters \/ ClearFilters
    \/ AddColumn \/ DropColumn

SpecViewer == InitViewer /\ [][NextViewer]_vars

\* ------------------------------------------------------------------------
\* MainWindow (gui/main_window.py) and TableSelector
\* ------------------------------------------------------------------------
\* DatabaseConnection.get_tables: schemaname||'.'||tablename of the tables of
\* the schema whose name is not LIKE 'aud_%', ORDER BY tablename
NameRank(n) == CASE n = <<"ghost">> -> 1 [] n = <<"users">> -> 2 [] OTHER -> 3

RECURSIVE ByName(_)
ByName(names) ==
    IF names = {} THEN <<>>
    ELSE LET n == CHOOSE n \in names : \A m \in names : NameRank(m) >= NameRank(n)
         IN  <<DbSchema \o <<".">> \o n>> \o ByName(names \ {n})

GetTables(d) == ByName({n \in DOMAIN d.tables : n[1] # "aud_"})

\* TableSelector.get_selected_tables: the checked tables, in the order of the
\* list
RECURSIVE Checked(_, _)
Checked(tables, selected) ==
    IF tables = <<>> THEN <<>>
    ELSE (IF Head(tables) \in selected THEN <<Head(tables)>> ELSE <<>>)
         \o Checked(Tail(tables), selected)

\* the variables no step of the window changes
WindowUnchanged ==
    UNCHANGED <<pc, op, loc, issued, result, keyChanges, faults, bulk, ident, viewer>>

\* the user checks or unchecks a table of the list
ToggleTable ==
    \E i \in 1..Len(win.tables) :
        /\ win' = [win EXCEPT !.selected =
                      IF win.tables[i] \in @ THEN @ \ {win.tables[i]}
                      ELSE @ \cup {win.tables[i]}]
        /\ UNCHANGED db /\ WindowUnchanged

\* _on_connect, _create_audit, _remove_audit: the callback starts a thread
\* and returns; the two buttons are enabled while a table is checked
StartThread(kind) ==
    /\ BagCardinality(win.workers) + Len(win.queue) < MaxPending
    /\ kind # "connect" => win.selected # {}
    /\ win' = [win EXCEPT !.workers = @ (+) SetToBag({NewWorker(kind)})]
    /\ UNCHANGED db /\ WindowUnchanged

OnConnect == StartThread("connect")

CreateAuditClicked == StartThread("create")

RemoveAuditClicked == StartThread("remove")

Touch(w, what) == [w EXCEPT !.touched = @ \cup what]

\* what root.after(0, callback) puts into the event queue when thread w calls
\* it: the callback, and of the thread what the properties are about
Scheduled(w, callback) ==
    [callback |-> callback, kind |-> w.kind, selected_tables |-> w.selected_tables,
     attempted |-> w.attempted, raised |-> w.raised, touched |-> w.touched]

\* thread w goes on as v
Continues(w, v) ==
    win' = [win EXCEPT !.workers = (@ (-) SetToBag({w})) (+) SetToBag({v})]

\* thread w passes callback to root.after and returns
Returns(w, v, callback) ==
    win' = [win EXCEPT !.workers = @ (-) SetToBag({w}),
                       !.queue = Append(@, Scheduled(v, callback))]

\* what a step makes of thread w: it goes on with the record next.w, or
\* schedules next.callback and returns, or returns without scheduling
Becomes(w, next) ==
    IF next.callback = "" THEN Continues(w, next.w)
    ELSE IF next.callback = "none" THEN win' = [win EXCEPT !.workers = @ (-) SetToBag({w})]
    ELSE Returns(w, next.w, next.callback)

GoesOn(v) == [w |-> v, callback |-> ""]

Schedule(v, callback) == [w |-> v, callback |-> callback]

\* connect_thread: the thread assigns self.db_connection and
\* self.audit_manager (whose constructor logs), then schedules
\* _on_connect_success, or _on_connect_error when a constructor raised
ConnectThread ==
    \E w \in BagToSet(win.workers), ok \in BOOLEAN :
        /\ w.kind = "connect" /\ w.pc = "start"
        /\ Becomes(w, Schedule(Touch(w, {"fields", "log"}),
                               IF ok THEN "_on_connect_success" ELSE "_on_connect_error"))
        /\ UNCHANGED db /\ WindowUnchanged

\* the head of create_thread and remove_thread: the thread reads the
\* selection; empty, it schedules the warning and returns; else create logs
\* and enters its loop, remove goes on to ask for confirmation
ReadSelection ==
    \E w \in BagToSet(win.workers) :
        LET v == Touch(w, {"selector"})
            tables == Checked(win.tables, win.selected)
        IN  /\ w.kind \in {"create", "remove"} /\ w.pc = "start"
            /\ Becomes(w,
                  IF tables = <<>> THEN Schedule(v, "showwarning")
                  ELSE IF w.kind = "remove"
                       THEN GoesOn([v EXCEPT !.selected_tables = tables, !.pc = "confirm"])
                  ELSE GoesOn([Touch(v, {"log"}) EXCEPT
                                  !.selected_tables = tables, !.i = 1,
                                  !.attempted = <<tables[1]>>, !.pc = "c_exists"]))
            /\ UNCHANGED db /\ WindowUnchanged

\* remove_thread calls messagebox.askyesno itself; on "no" it returns
Confirm ==
    \E w \in BagToSet(win.workers), yes \in BOOLEAN :
        LET v == Touch(w, {"dialog"})
        IN  /\ w.pc = "confirm"
            /\ Becomes(w,
                  IF ~yes THEN Schedule(v, "none")
                  ELSE GoesOn([Touch(v, {"log"}) EXCEPT
                                  !.i = 1, !.attempted = <<w.selected_tables[1]>>,
                                  !.pc = "r_triggers"]))
            /\ UNCHANGED db /\ WindowUnchanged

\* the statement of the manager's try block that thread w is at
ManagerCall(d, w) ==
    LET t == w.selected_tables[w.i]
        Found(e) ==
            IF e.ret THEN Return(d, <<>>, e.log)
            ELSE Raise(d, NewExc("TableNotFoundError", "Tabla no encontrada: "), e.log)
    IN  CASE w.pc = "c_exists" -> Found(TableExists(d, t, FALSE))
          [] w.pc = "c_structure" -> GetTableStructure(d, t, FALSE)
          [] w.pc = "c_name" -> GetAuditTableName(d, t, FALSE)
          [] w.pc = "c_table" -> CreateAuditTable(d, t, w.loc.table_structure, 0)
          [] w.pc = "c_function" -> CreateAuditFunction(d, t, 0)
          [] w.pc = "c_triggers" -> CreateAuditTriggers(d, t, 0)
          [] w.pc = "r_triggers" -> DropAuditTriggers(d, t, 0)
          [] w.pc = "r_function" -> DropAuditFunction(d, t, 0)

\* the manager's call for the current table has returned: the thread logs;
\* after the last table it schedules the success dialog, else it calls the
\* manager for the next table
LoopNext(w) ==
    IF w.i = Len(w.selected_tables) THEN Schedule(Touch(w, {"log"}), "showinfo")
    ELSE GoesOn([Touch(w, {"log"}) EXCEPT
                    !.i = @ + 1,
                    !.attempted = Append(@, w.selected_tables[w.i + 1]),
                    !.loc = NoLoc,
                    !.pc = IF w.kind = "create" THEN "c_exists" ELSE "r_triggers"])

\* the except clause of the thread as it would be if it went on with the
\* next table
LoopRaiseContinuing(w) == LoopNext([w EXCEPT !.raised = TRUE])

\* the manager's call has raised: the for loop is left, the except clause
\* of the thread logs and schedules the error dialog
LoopRaise(w) == Schedule(Touch([w EXCEPT !.raised = TRUE], {"log"}), "showerror")

\* a thread runs one statement of create_audit_for_table or
\* remove_audit_for_table for the table its loop is at
ManagerStep ==
    \E w \in BagToSet(win.workers) :
        /\ w.pc \in {"c_exists", "c_structure", "c_name", "c_table",
                     "c_function", "c_triggers", "r_triggers", "r_function"}
        /\ \E r \in {ManagerCall(db, w)} :
             LET v == [w EXCEPT
                         !.loc = IF w.pc = "c_structure"
                                 THEN [@ EXCEPT !.table_structure = r.ret]
                                 ELSE IF w.pc = "c_name"
                                 THEN [@ EXCEPT !.audit_table_name = r.ret]
                                 ELSE @]
                 last == w.pc \in {"c_triggers", "r_function"}
             IN  /\ db' = r.db
                 /\ Becomes(w,
                       IF r.exc # NoExc THEN LoopRaise(v)
                       ELSE IF last THEN LoopNext(v)
                       ELSE GoesOn([v EXCEPT !.pc = IF w.pc = "r_triggers" THEN "r_function"
                                                     ELSE CreateNext(w.pc, NoExc)]))
        /\ WindowUnchanged

\* the main loop runs the callback at the head of the event queue:
\* _on_connect_success loads the list of tables, the others show a dialog
MainLoop ==
    /\ win.queue # <<>>
    /\ win' = IF Head(win.queue).callback = "_on_connect_success"
              THEN [win EXCEPT !.queue = Tail(@), !.tables = GetTables(db), !.selected = {}]
              ELSE [win EXCEPT !.queue = Tail(@)]
    /\ UNCHANGED db /\ WindowUnchanged

\* the window has connected when the schema held users and ghost; another
\* session has dropped ghost since
InitWindow ==
    /\ db = SourceDb("k1")
    /\ InitCaller
    /\ ident = NoIdent /\ viewer = NoViewer
    /\ win = [NoWin EXCEPT !.tables = << <<"public", ".", "ghost">>,
                                         <<"public", ".", "users">> >>]

NextWindow ==
    \/ ToggleTable
    \/ OnConnect \/ CreateAuditClicked \/ RemoveAuditClicked
    \/ ConnectThread \/ ReadSelection \/ Confirm \/ ManagerStep
    \/ MainLoop

SpecWindow == InitWindow /\ [][NextWindow]_vars

\* the manager's operations and the rows other sessions write, under a key
\* that does not change
Next ==
    \/ CallCreate \/ CreateTableExists \/ CreateGetStructure \/ CreateGetName
    \/ CreateTable \/ CreateFunction \/ CreateTriggers
    \/ CallRemove \/ RemoveTriggers \/ RemoveFunction
    \/ GetAuditStatus
    \/ RowEvent

Spec == Init /\ [][Next]_vars

\* reading the audit records: creates, the rows other sessions write, and
\* get_audit_data, under a key that does not change
NextData ==
    \/ CallCreate \/ CreateTableExists \/ CreateGetStructure \/ CreateGetName
    \/ CreateTable \/ CreateFunction \/ CreateTriggers
    \/ GetAuditData
    \/ RowEvent

SpecData == Init /\ [][NextData]_vars

\* batches of create_bulk_audit, one after the other, under a key that does
\* not change
NextBulk ==
    \/ CallBulk \/ BulkLoop \/ BulkRecord
    \/ CreateTableExists \/ CreateGetStructure \/ CreateGetName
    \/ CreateTable \/ CreateFunction \/ CreateTriggers

SpecBulk == Init /\ [][NextBulk]_vars

\* creates, status and reads while other sessions replace or delete the
\* stored key
NextRekey ==
    \/ CallCreate \/ CreateTableExists \/ CreateGetStructure \/ CreateGetName
    \/ CreateTable \/ CreateFunction \/ CreateTriggers
    \/ GetAuditStatus
    \/ GetAuditDataDefaults
    \/ SetKey

SpecRekey == Init /\ [][NextRekey]_vars

\* ------------------------------------------------------------------------
\* Properties
\* ------------------------------------------------------------------------
\* the call of kind has returned or raised: to its caller, or (a create) to
\* the loop of create_bulk_audit
Done(kind) ==
    /\ op.kind = kind
    /\ pc \in IF kind = "create" THEN {"idle", "b_record", "b_loop"} ELSE {"idle"}

Failed == result.exc # NoExc

\* the catalog objects, without rows, clock and key
Catalog(d) ==
    [tables |-> [n \in DOMAIN d.tables |-> d.tables[n].cols],
     functions |-> d.functions, triggers |-> d.triggers]

\* the names create derives for t under key, as the catalog stores them
ShadowName(t, key) == LowerName(<<"aud_">> \o EncryptName(t, key))

FunctionName(t, key) == LowerName(EncryptName(t, key) \o <<"_audit">>)

\* the three audit triggers are installed on t and call t's function
TriggersPresent(d, t, key) ==
    \A i \in 1..3 : \E g \in d.triggers :
        /\ g.table = RelName(t) /\ g.event = TriggerEvents[i]
        /\ g.fn = FunctionName(t, key)

AuditPresent(d, t, key) ==
    /\ ShadowName(t, key) \in DOMAIN d.tables
    /\ FunctionName(t, key) \in DOMAIN d.functions
    /\ TriggersPresent(d, t, key)

\* C1: create_audit_for_table(t) on a table that does not exist fails with
\* an AuditCreationError and hands no DDL statement to the database; no step
\* taken while it runs changes a table, function or trigger of the catalog.
C1_MissingTableNoDDL ==
    /\ [](op.kind = "create" /\ ~RelExists(db, op.t) =>
            /\ pc \in {"c_exists", "idle", "b_record", "b_loop"}
            /\ \A i \in 1..Len(issued) : ~IsDDL(issued[i].stmt)
            /\ Done("create") => result.exc.type = "AuditCreationError")
    /\ [][op.kind = "create" /\ ~Done("create") /\ ~RelExists(db, op.t)
            => Catalog(db') = Catalog(db)]_vars

C1_Witness ==
    /\ Done("create") /\ op.t = <<"public", ".", "ghost">>
    /\ result.exc.type = "AuditCreationError"
    /\ Len(issued) = 1 /\ issued[1].stmt.sql = "SELECT EXISTS" /\ issued[1].ok

\* C2 (as claimed): under an unchanged key, after a successful create(t)
\* get_audit_status(t) reports audit_table_exists, triggers_exist and
\* function_exists all true.
C2_StatusAfterCreate ==
    Done("create") /\ ~Failed /\ ~op.rekeyed =>
        \A st \in {AuditStatus(db, op.t, {})} :
            ~st.none /\ st.audit_table_exists /\ st.triggers_exist /\ st.function_exists

\* C3 (as claimed): for an existing source table and a present, well-formed
\* key, create(t) whose connections do not fail completes without error and
\* leaves shadow table, function and the three triggers present, whatever the
\* state of t's audit was before.
C3_CreateIsRerunnable ==
    Done("create") /\ RelExists(db, op.t) /\ ~op.rekeyed /\ KeyValid(db.clave)
      /\ result.exc.root # ConnectionLost =>
        ~Failed /\ AuditPresent(db, op.t, db.clave)

\* C4: after a successful create(t) followed by remove(t), under an unchanged
\* key, status(t) reports triggers_exist and function_exists false and
\* audit_table_exists true, and the shadow table is in the catalog.
C4_StatusAfterRemove ==
    Done("remove") /\ op.after_create /\ ~op.rekeyed =>
        \A st \in {AuditStatus(db, op.t, {})} :
            /\ ~st.none /\ ~st.triggers_exist /\ ~st.function_exists
            /\ st.audit_table_exists
            /\ ShadowName(op.t, db.clave) \in DOMAIN db.tables

C4_Witness ==
    /\ Done("remove") /\ op.after_create /\ ~op.rekeyed
    /\ op.t = <<"users">>
    /\ FunctionName(op.t, db.clave) \notin DOMAIN db.functions
    /\ db.triggers = {}

\* C5: no step of remove(t), whether it succeeds or fails, drops or alters a
\* table: every table, with its columns and rows, is as it was before the step.
C5_RemoveKeepsShadow ==
    [][op.kind = "remove" /\ pc \in {"r_triggers", "r_function"} /\ pc' # pc
         => db'.tables = db.tables]_vars

C5_Witness ==
    /\ Done("remove") /\ op.after_create
    /\ FunctionName(op.t, db.clave) \notin DOMAIN db.functions
    /\ ShadowName(op.t, db.clave) \in DOMAIN db.tables
    /\ Len(db.tables[ShadowName(op.t, db.clave)].rows) > 0

\* the step of create a statement belongs to: 1 fetch columns, 2 shadow-table
\* DDL, 3 trigger-function DDL, 4 trigger DDL; 0 for the key and existence
\* queries and the column query inside create_audit_function
Phase(e) ==
    CASE e.stmt.sql = "SELECT COLUMNS" /\ e.step = "c_structure" -> 1
      [] e.stmt.sql \in {"DROP TABLE", "CREATE TABLE"} -> 2
      [] e.stmt.sql \in {"DROP FUNCTION", "CREATE FUNCTION"} -> 3
      [] e.stmt.sql \in {"DROP TRIGGER", "CREATE TRIGGER"} -> 4
      [] OTHER -> 0

\* the statement that completes a step
Completes(e, ph) ==
    /\ e.ok
    /\ \/ ph = 1 /\ Phase(e) = 1
       \/ ph = 2 /\ e.stmt.sql = "CREATE TABLE"
       \/ ph = 3 /\ e.stmt.sql = "CREATE FUNCTION"

\* C6: the statements of create(t) come in the order fetch columns, shadow
\* table DDL, function DDL, trigger DDL; a statement of a step is issued only
\* after every earlier step has completed, and nothing follows a failure.
C6_StepsInOrder ==
    op.kind = "create" =>
        \A i \in 1..Len(issued) :
            /\ i < Len(issued) => issued[i].ok
            /\ \A j \in 1..(i - 1) :
                  Phase(issued[i]) # 0 /\ Phase(issued[j]) # 0
                     => Phase(issued[j]) <= Phase(issued[i])
            /\ \A ph \in 1..3 :
                  ph < Phase(issued[i]) => \E j \in 1..(i - 1) : Completes(issued[j], ph)

C6_Witness ==
    /\ Done("create") /\ ~Failed
    /\ Len(issued) = 17
    /\ issued[Len(issued)].stmt.sql = "CREATE TRIGGER"

\* C7 (as claimed): every failure of create reaches the caller as an
\* AuditCreationError whose message contains the text of the original cause.
C7_Original ==
    Done("create") /\ Failed =>
        /\ result.exc.type = "AuditCreationError"
        /\ Contains(result.exc.msg, result.exc.root)

\* C7 (amended): every failure of create reaches the caller as an
\* AuditCreationError whose message contains the text of the exception that
\* was raised inside create; that text is the original cause except when the
\* initial existence probe swallowed a database error, where it is the
\* table-not-found text.
C7_WrappedOnce ==
    Done("create") /\ Failed =>
        /\ result.exc.type = "AuditCreationError"
        /\ result.exc.msg[1] = "Error creando auditoria para: "
        /\ Contains(result.exc.msg, result.exc.raised)
        /\ result.exc.root # result.exc.raised =>
              /\ result.exc.raised = "Tabla no encontrada: "
              /\ Len(issued) = 1 /\ issued[1].stmt.sql = "SELECT EXISTS" /\ ~issued[1].ok

C7_Witness ==
    /\ Done("create") /\ Failed
    /\ result.exc.root = "Invalid key size"
    /\ Contains(result.exc.msg, "Invalid key size")

\* what a successful DDL statement leaves in the catalog
Created(d, s) ==
    CASE s.sql = "CREATE TABLE" -> LowerName(s.obj) \in DOMAIN d.tables
      [] s.sql = "CREATE FUNCTION" -> LowerName(s.obj) \in DOMAIN d.functions
      [] s.sql = "CREATE TRIGGER" ->
           \E g \in d.triggers : g.name = LowerName(s.obj) /\ g.table = RelName(s.on)
      [] OTHER -> TRUE

Dropped(d, s) ==
    CASE s.sql = "DROP TABLE" -> LowerName(s.obj) \notin DOMAIN d.tables
      [] s.sql = "DROP FUNCTION" -> LowerName(s.obj) \notin DOMAIN d.functions
      [] s.sql = "DROP TRIGGER" ->
           ~\E g \in d.triggers : g.name = LowerName(s.obj) /\ g.table = RelName(s.on)
      [] OTHER -> TRUE

\* C8: a failed create(t) rolls nothing back: whatever a statement that
\* succeeded before the failure created is in the catalog, and whatever it
\* dropped (and no later statement of this create re-created) is not.
C8_NoRollback ==
    Done("create") /\ Failed =>
        \A i \in 1..Len(issued) :
            issued[i].ok =>
                /\ Created(db, issued[i].stmt)
                /\ (\A j \in (i + 1)..Len(issued) :
                       ~(issued[j].ok /\ issued[j].stmt.obj = issued[i].stmt.obj))
                     => Dropped(db, issued[i].stmt)

\* PARTIAL: the shadow table is there, the function is not
C8_Witness ==
    /\ Done("create") /\ Failed /\ KeyValid(db.clave) /\ ~op.rekeyed
    /\ ShadowName(op.t, db.clave) \in DOMAIN db.tables
    /\ FunctionName(op.t, db.clave) \notin DOMAIN db.functions
    /\ \E i \in 1..Len(issued) : issued[i].ok /\ issued[i].stmt.sql = "CREATE TABLE"

\* C9 (as claimed): get_audit_status(t) returns a record of four booleans in
\* every state of the database, each unresolved probe being false.
C9_StatusAlwaysRecord ==
    Done("status") =>
        /\ ~result.ret.none
        /\ \A i \in 1..Len(issued) :
              ~issued[i].ok =>
                 /\ i = 2 => ~result.ret.table_exists
                 /\ i = 3 => ~result.ret.audit_table_exists
                 /\ i = 4 => ~result.ret.triggers_exist
                 /\ i = 5 => ~result.ret.function_exists

\* no object of an audit of the relation t names is in the catalog
NoAuditFor(d, t) ==
    /\ \A g \in d.triggers : g.table # RelName(t)
    /\ \A r \in TableRefs, k \in {"k1", "k2"} :
          RelName(r) = RelName(t) =>
             /\ ShadowName(r, k) \notin DOMAIN d.tables
             /\ FunctionName(r, k) \notin DOMAIN d.functions

\* C10 (as claimed): for a table on which no audit was ever created, status
\* returns all four flags false.
C10_Original ==
    Done("status") /\ NoAuditFor(db, op.t) =>
        /\ ~result.ret.table_exists /\ ~result.ret.audit_table_exists
        /\ ~result.ret.triggers_exist /\ ~result.ret.function_exists

\* C10 (amended): for a table on which no audit was ever created, status
\* returns None or a record whose audit_table_exists, triggers_exist and
\* function_exists are false and whose table_exists is true exactly when the
\* source table exists and the query of its existence succeeded.
C10_NoAuditFlags ==
    Done("status") /\ NoAuditFor(db, op.t) =>
        /\ ~result.ret.audit_table_exists
        /\ ~result.ret.triggers_exist /\ ~result.ret.function_exists
        /\ ~result.ret.none =>
              (result.ret.table_exists <=> RelExists(db, op.t) /\ issued[2].ok)

C10_Witness ==
    /\ Done("status") /\ NoAuditFor(db, op.t)
    /\ ~result.ret.none /\ result.ret.table_exists
    /\ ~result.ret.audit_table_exists

\* C11: create_bulk_audit attempts the tables of its input once each, in
\* input order; every completed item is appended to exactly one of success
\* and failed (failed with the error text of its create), so that at return
\* len(success) + len(failed) = total = len(table_names); a failed item does
\* not keep the later ones from being attempted.
C11_BulkAttemptsAll ==
    /\ [](/\ bulk.attempts = SubSeq(bulk.table_names, 1, Len(bulk.attempts))
          /\ bulk.total = Len(bulk.table_names)
          /\ Len(bulk.success) + Len(bulk.failed) <= Len(bulk.attempts)
          /\ Len(bulk.attempts) <= Len(bulk.success) + Len(bulk.failed) + 1
          /\ \A j \in 1..Len(bulk.failed) :
                /\ bulk.failed[j].error # <<>>
                /\ bulk.failed[j].error[1] = "Error creando auditoria para: "
          /\ Done("bulk") =>
                /\ bulk.attempts = bulk.table_names
                /\ Len(bulk.success) + Len(bulk.failed) = bulk.total)
    /\ [][pc = "b_record" /\ pc' # pc =>
            LET t == bulk.attempts[Len(bulk.attempts)]
            IN  \/ /\ result.exc = NoExc
                   /\ bulk'.success = Append(bulk.success, t)
                   /\ bulk'.failed = bulk.failed
                \/ /\ result.exc # NoExc
                   /\ bulk'.success = bulk.success
                   /\ bulk'.failed = Append(bulk.failed,
                                            [table |-> t, error |-> result.exc.msg])]_vars

\* the first table fails, the second is attempted and succeeds
C11_Witness ==
    /\ Done("bulk")
    /\ bulk.table_names = << <<"public", ".", "ghost">>, <<"users">> >>
    /\ bulk.success = << <<"users">> >>
    /\ Len(bulk.failed) = 1 /\ bulk.failed[1].table = <<"public", ".", "ghost">>
    /\ bulk.total = 2

\* C12: with a progress callback, create_bulk_audit over n tables calls it
\* once after each item, failed or not, with (i, n, table_i) for i = 1..n in
\* increasing order, the call for item i coming before item i + 1 is
\* started; at return it has been called exactly n times.
C12_ProgressAfterEachItem ==
    bulk.callback =>
        /\ \A j \in 1..Len(bulk.progress) :
              bulk.progress[j] = <<j, Len(bulk.table_names), bulk.table_names[j]>>
        /\ Len(bulk.progress) = Len(bulk.success) + Len(bulk.failed)
        /\ Len(bulk.attempts) <= Len(bulk.progress) + 1
        /\ Done("bulk") => Len(bulk.progress) = Len(bulk.table_names)

C12_Witness ==
    /\ Done("bulk") /\ bulk.callback
    /\ Len(bulk.progress) = 2
    /\ bulk.success # <<>> /\ bulk.failed # <<>>
    /\ bulk.progress[2] = <<2, 2, bulk.table_names[2]>>

\* the shadow table of t exists under no well-formed key
ShadowNeverCreated(d, t) ==
    \A k \in {"k1", "k2"} : ShadowName(t, k) \notin DOMAIN d.tables

\* C13: get_audit_data(t) for a table whose shadow table was never created
\* returns the empty list and raises nothing, whether the key is present,
\* missing or malformed and whether or not a connection fails.
C13_NoShadowEmptyList ==
    Done("data") /\ ShadowNeverCreated(db, op.t) =>
        result.rows = <<>> /\ result.exc = NoExc

C13_Witness ==
    /\ Done("data") /\ ShadowNeverCreated(db, op.t) /\ RelExists(db, op.t)
    /\ KeyValid(db.clave) /\ result.rows = <<>> /\ result.exc = NoExc
    /\ Len(issued) = 2 /\ issued[2].stmt.sql = "SELECT EXISTS" /\ issued[2].ok

\* C14 (as claimed): when no connection has failed and the shadow table of t
\* exists and holds records, get_audit_data(t, limit) returns the most recent
\* min(limit, number of records) of them, latest first.
C14_ReadRowsReturnsRecords ==
    Done("data") /\ faults = 0 /\ KeyValid(db.clave)
      /\ ShadowName(op.t, db.clave) \in DOMAIN db.tables
      /\ db.tables[ShadowName(op.t, db.clave)].rows # <<>> =>
        /\ result.rows # <<>>
        /\ \E i \in 1..Len(issued) :
              /\ issued[i].stmt.sql = "SELECT ROWS"
              /\ result.rows = Limit(OrderDesc(db.tables[ShadowName(op.t, db.clave)].rows),
                                     issued[i].stmt.limit)

\* C15: while clave_secreta holds no key, create(t) hands no DDL statement to
\* the database and gets no further than deriving the audit table name, it
\* ends in an AuditCreationError, and none of its steps changes a table,
\* function or trigger of the catalog.
C15_NoKeyFailsClosed ==
    /\ [](op.kind = "create" /\ db.clave = NoKey =>
            /\ pc \notin {"c_table", "c_function", "c_triggers"}
            /\ \A i \in 1..Len(issued) : ~IsDDL(issued[i].stmt)
            /\ Done("create") => result.exc.type = "AuditCreationError")
    /\ [][op.kind = "create" /\ ~Done("create") /\ db.clave = NoKey
            => Catalog(db') = Catalog(db)]_vars

C15_Witness ==
    /\ Done("create") /\ db.clave = NoKey /\ op.t = <<"users">>
    /\ result.exc.type = "AuditCreationError"
    /\ Contains(result.exc.msg, "No se encontro clave de encriptacion en clave_secreta")
    /\ Len(issued) = 3 /\ issued[3].stmt.sql = "SELECT CLAVE" /\ issued[3].ok

\* the statements of kind sql that the step of op has issued
IssuedOf(sql, step) == {i \in 1..Len(issued) : issued[i].stmt.sql = sql /\ issued[i].step = step}

\* C16 (as claimed): when one of the three DROP TRIGGER statements of
\* remove(t) fails, the other two are attempted all the same, and the drop of
\* the function is attempted afterwards.
C16_RemoveBestEffort ==
    Done("remove") /\ (\E i \in IssuedOf("DROP TRIGGER", "r_triggers") : ~issued[i].ok) =>
        /\ Cardinality(IssuedOf("DROP TRIGGER", "r_triggers")) = 3
        /\ \E i \in 1..Len(issued) : issued[i].step = "r_function"

\* C17 (as claimed): when remove(t) could not drop the function of t, because
\* there is no key or because a query of drop_audit_function failed, remove
\* raises an AuditCreationError whose message carries the cause.
C17_RemoveSurfacesFailure ==
    Done("remove")
      /\ (db.clave = NoKey \/ \E i \in 1..Len(issued) :
                                  issued[i].step = "r_function" /\ ~issued[i].ok) =>
        /\ result.exc.type = "AuditCreationError"
        /\ Contains(result.exc.msg, result.exc.root)

\* C18: after a successful create(t) on a source of n columns the shadow
\* table has n + 3 columns, all BYTEA: the encrypted names of the source
\* columns in ordinal order, then those of usuario_accion, fecha_accion and
\* accion_sql; none bears a plaintext name; and the trigger function inserts
\* into that table n + 3 values in the same positions: the n source columns,
\* then SESSION_USER, NOW() and TG_OP.
C18_ShadowShape ==
    Done("create") /\ ~Failed =>
        LET key == db.clave
            src == db.tables[RelName(op.t)].cols
            n == Len(src)
            shadow == db.tables[ShadowName(op.t, key)]
            f == db.functions[FunctionName(op.t, key)]
        IN  /\ Len(shadow.cols) = n + 3 /\ Len(shadow.types) = n + 3
            /\ \A i \in 1..(n + 3) : shadow.types[i] = "BYTEA"
            /\ \A i \in 1..n : shadow.cols[i] = LowerName(EncryptName(src[i], key))
            /\ \A i \in 1..3 :
                  shadow.cols[n + i] = LowerName(EncryptName(AuditExtras[i], key))
            /\ \A i \in 1..(n + 3) :
                  shadow.cols[i] \notin {src[j] : j \in 1..n} \cup
                                        {AuditExtras[j] : j \in 1..3}
            /\ f.target = ShadowName(op.t, key)
            /\ f.nvals = n + 3
            /\ f.vals = src \o << <<"SESSION_USER">>, <<"NOW()">>, <<"TG_OP">> >>

C18_Witness ==
    /\ Done("create") /\ ~Failed /\ KeyValid(db.clave)
    /\ Len(db.tables[ShadowName(op.t, db.clave)].cols) = 5
    /\ db.functions[FunctionName(op.t, db.clave)].nvals = 5

\* the references of the source table users whose audit is complete in d
ActiveRefs(d) ==
    {t \in TableRefs :
        RelName(t) = <<"users">> /\ KeyValid(d.clave) /\ AuditPresent(d, t, d.clave)}

\* C19: while the audit of users is active, a row-level INSERT, UPDATE or
\* DELETE on users takes effect on users and appends exactly one record to
\* the shadow table: the NEW image for INSERT and UPDATE, the OLD image for
\* DELETE, with the operation as its action kind.
C19_EveryRowEventRecorded ==
    [][db'.now = db.now + 1 =>
        \A t \in ActiveRefs(db) :
            LET sh == ShadowName(t, db.clave)
                users == <<"users">>
            IN  \E e \in {"insert", "update", "delete"} :
                    /\ db'.tables[users].rows =
                          Append(db.tables[users].rows, [event |-> e, ts |-> db.now])
                    /\ db'.tables[sh].rows =
                          Append(db.tables[sh].rows,
                                 [accion |-> e,
                                  image |-> IF e = "delete" THEN "OLD" ELSE "NEW",
                                  ts |-> db.now,
                                  nvals |-> Len(db.tables[users].cols) + 3])]_vars

C19_Witness ==
    /\ ActiveRefs(db) # {}
    /\ \E t \in ActiveRefs(db) :
          LET rows == db.tables[ShadowName(t, db.clave)].rows
          IN  /\ rows # <<>>
              /\ rows[Len(rows)].accion = "delete" /\ rows[Len(rows)].image = "OLD"
    /\ db.tables[<<"users">>].rows # <<>>
    /\ db.tables[<<"users">>].rows[Len(db.tables[<<"users">>].rows)].event = "delete"

\* C20: after a successful create(t) the source table has exactly three
\* triggers, one per operation, each row-level and bound to the trigger
\* function of t; those for INSERT and UPDATE fire AFTER, that for DELETE
\* fires BEFORE.
C20_ThreeTriggers ==
    Done("create") /\ ~Failed =>
        LET on == {g \in db.triggers : g.table = RelName(op.t)}
        IN  /\ Cardinality(on) = 3
            /\ \A e \in {"insert", "update", "delete"} :
                  \E g \in on :
                      /\ g.event = e /\ g.level = "ROW"
                      /\ g.fn = FunctionName(op.t, db.clave)
                      /\ g.timing = IF e = "delete" THEN "BEFORE" ELSE "AFTER"

C20_Witness ==
    /\ Done("create") /\ ~Failed
    /\ Cardinality(db.triggers) = 3
    /\ \E g \in db.triggers : g.event = "delete" /\ g.timing = "BEFORE"
    /\ \E g \in db.triggers : g.event = "insert" /\ g.timing = "AFTER"

\* C21: whatever base64 text the cipher yields, the identifier _encrypt_name
\* returns starts with a letter and goes on with letters, digits and
\* underscores only; it is the text with every other character replaced by an
\* underscore, led by a_ exactly when the text does not start with a letter.
C21_IdentifierGrammar ==
    ident.name # <<>> =>
        LET added == Len(ident.name) - Len(ident.b64)
        IN  /\ IsAlpha(ident.name[1])
            /\ \A i \in 2..Len(ident.name) :
                  IsAlpha(ident.name[i]) \/ ident.name[i] \in DigitChars \/ ident.name[i] = "_"
            /\ added = IF ident.b64[1] \in UpperChars \cup LowerChars THEN 0 ELSE 2
            /\ added = 2 => SubSeq(ident.name, 1, 2) = <<"a", "_">>
            /\ \A i \in 1..Len(ident.b64) :
                  ident.name[i + added] =
                     IF ident.b64[i] \in {"+", "/", "="} THEN "_" ELSE ident.b64[i]

C21_Witness ==
    /\ ident.b64 = <<"7", "+", "=">>
    /\ ident.name = <<"a", "_", "7", "_", "_">>

\* the key under which the name n of a shadow table or function of t was
\* derived, if any
KeysOf(t, n) ==
    {k \in {"k1", "k2"} : LowerName(n) \in {ShadowName(t, k), FunctionName(t, k)}}

\* C25 (as claimed): the names a successful create(t) hands to the database
\* (the shadow table it creates, the function it creates and the table that
\* function inserts into, the function its triggers bind) are all derived
\* from one key, also when the stored key changes while create runs.
C25_OneKeyPerCreate ==
    Done("create") /\ ~Failed =>
        \E k \in {"k1", "k2"} :
            \A i \in 1..Len(issued) :
                /\ issued[i].stmt.sql = "CREATE TABLE" => KeysOf(op.t, issued[i].stmt.obj) = {k}
                /\ issued[i].stmt.sql = "CREATE FUNCTION" =>
                      /\ KeysOf(op.t, issued[i].stmt.obj) = {k}
                      /\ KeysOf(op.t, issued[i].stmt.on) = {k}
                /\ issued[i].stmt.sql = "CREATE TRIGGER" => KeysOf(op.t, issued[i].stmt.fn) = {k}

\* C26: once the stored key is k2, a shadow table that was created for t
\* under k1 is not found under the name recomputed for t (no shadow table of
\* t under k2 existing): get_audit_status(t) does not report
\* audit_table_exists, get_audit_data(t) returns the empty list, and the
\* shadow table under k1 is still in the database.
C26_RotationOrphans ==
    /\ db.clave = "k2" /\ op.t # <<>>
    /\ ShadowName(op.t, "k1") \in DOMAIN db.tables
    /\ ShadowName(op.t, "k2") \notin DOMAIN db.tables
    /\ ~op.rekeyed
    => /\ Done("status") => ~result.ret.audit_table_exists
       /\ Done("data") => result.rows = <<>> /\ result.exc = NoExc

C26_Witness ==
    /\ Done("status") /\ ~op.rekeyed /\ db.clave = "k2" /\ op.t = <<"users">>
    /\ ShadowName(op.t, "k1") \in DOMAIN db.tables
    /\ ShadowName(op.t, "k2") \notin DOMAIN db.tables
    /\ ~result.ret.none /\ result.ret.table_exists /\ ~result.ret.audit_table_exists

\* C27 (as claimed): the trigger names that the trigger-drop step of
\* remove(t) hands to DROP TRIGGER are exactly the names of the audit triggers
\* installed on t.
C27_DropsWhatCreateMade ==
    [][op.kind = "remove" /\ pc = "r_triggers" /\ pc' = "r_function"
         /\ (\E g \in db.triggers : g.table = RelName(op.t)) =>
            {g.name : g \in {h \in db.triggers : h.table = RelName(op.t)}} =
            {LowerName(issued'[i].stmt.obj) :
                i \in {j \in 1..Len(issued') : issued'[j].stmt.sql = "DROP TRIGGER"}}]_vars

\* C28 (as claimed): in every state, each trigger installed on a table calls
\* a function that exists, and that function inserts into a table that
\* exists.
C28_TriggersHaveTargets ==
    \A g \in db.triggers :
        /\ g.fn \in DOMAIN db.functions
        /\ db.functions[g.fn].target \in DOMAIN db.tables

\* C22: a click on the header that is already the sort column flips the
\* order between ASC and DESC and keeps the column; a click on any other
\* header makes it the sort column with order ASC; the order is always ASC or
\* DESC.
C22_SortToggle ==
    /\ [](viewer.current_sort_order \in {"ASC", "DESC"})
    /\ [][viewer'.clicked # NoColumn /\ viewer' # viewer =>
            /\ \E i \in 1..Len(viewer.display_columns) :
                   viewer.display_columns[i] = viewer'.clicked
            /\ viewer'.current_sort_column = viewer'.clicked
            /\ IF viewer.current_sort_column = viewer'.clicked
               THEN viewer'.current_sort_order # viewer.current_sort_order
               ELSE viewer'.current_sort_order = "ASC"]_vars

C22_Witness ==
    /\ viewer.open /\ viewer.clicked = <<"fecha">>
    /\ viewer.current_sort_column = <<"fecha">> /\ viewer.current_sort_order = "DESC"
    /\ viewer.query.order = "DESC"

\* what the trigger function writes into the column a label stands for
DataOf(label) ==
    CASE label = <<"usuario">> -> <<"SESSION_USER">>
      [] label = <<"fecha">> -> <<"NOW()">>
      [] label = <<"accion">> -> <<"TG_OP">>
      [] OTHER -> label

\* column col of the shadow table holds the data of label: the function that
\* inserts into the shadow table puts that value at col's position
Holds(d, shadow, col, label) ==
    \E fn \in DOMAIN d.functions :
        /\ d.functions[fn].target = shadow
        /\ \E j \in 1..Len(d.functions[fn].vals) :
               /\ j <= Len(d.tables[shadow].cols)
               /\ d.functions[fn].vals[j] = DataOf(label)
               /\ d.tables[shadow].cols[j] = col

\* C30 (as claimed): whenever the viewer has loaded data, every label it
\* displays is mapped to the shadow column that holds that label's data, and
\* the ORDER BY and WHERE of its query name the columns of the labels chosen,
\* also after the source table gained or lost columns.
C30_LabelsAligned ==
    viewer.open /\ viewer.dialog # "error" =>
        /\ \A i \in 1..Len(viewer.display_columns) :
              /\ viewer.display_columns[i] \in DOMAIN viewer.column_mapping
              /\ Holds(db, viewer.query.from,
                       viewer.column_mapping[viewer.display_columns[i]],
                       viewer.display_columns[i])
        /\ \A i \in 1..Len(viewer.query.where) :
              Holds(db, viewer.query.from, viewer.query.where[i].col,
                    viewer.query.where[i].label)

\* the same for a source table whose columns are those the audit was
\* created with
C30_AlignedWhileUnchanged ==
    db.tables[<<"users">>].cols = UsersColumns => C30_LabelsAligned

\* the threads of the window that run create or remove
InFlight ==
    [w \in {x \in BagToSet(win.workers) : x.kind \in {"create", "remove"}} |->
        win.workers[w]]

\* C23 (as claimed): at most one create or remove thread is in flight.
C23_OneLifecycleThread == BagCardinality(InFlight) <= 1

\* C24 (as claimed): no thread other than the main one reads the selection,
\* opens a dialog, writes the log pane or assigns a field of the window.
C24_WorkersKeepOffUI == \A w \in BagToSet(win.workers) : w.touched = {}

\* C29: a create or remove thread that has gone through its loop has called
\* the manager for the selected tables in order, up to and including the
\* first table whose call raised and no further; the one callback it has
\* scheduled is the error dialog if a call raised, and the success dialog,
\* with all tables attempted, otherwise.
C29_StopsAtFirstFailure ==
    \A j \in 1..Len(win.queue) :
        LET e == win.queue[j]
        IN  e.kind \in {"create", "remove"} /\ e.attempted # <<>> =>
                /\ \E i \in 1..Len(e.selected_tables) :
                       /\ e.attempted = SubSeq(e.selected_tables, 1, i)
                       /\ ~e.raised => i = Len(e.selected_tables)
                /\ e.callback = IF e.raised THEN "showerror" ELSE "showinfo"

C29_Witness ==
    \E j \in 1..Len(win.queue) :
        LET e == win.queue[j]
        IN  /\ e.kind = "create" /\ e.raised /\ e.callback = "showerror"
            /\ Len(e.selected_tables) = 2 /\ e.attempted = <<e.selected_tables[1]>>

====
